---- MODULE Spec2Model ----
(***************************************************************************)
(* Model of the storage/query core of open-tv (src-tauri/src/sql.rs).      *)
(*                                                                         *)
(* The SQLite database is modelled as four tables (sets of rows with a     *)
(* rowid), plus the settings table.  Every SQL statement of sql.rs is an   *)
(* operator from a database value to a statement result; every pub fn is   *)
(* an operator composed of its statements, and every action applies one    *)
(* pub fn to the stored tables.                                            *)
(*                                                                         *)
(* Encoding of values:                                                     *)
(*   Option<T> / a nullable column : {} is None / NULL, {v} is Some(v)     *)
(*   String / TEXT                 : a sequence of one-character strings   *)
(*   bool bound to an integer column : 0 or 1                              *)
(***************************************************************************)
EXTENDS Integers, Sequences, FiniteSets, TLC

(* ------------------------------------------------------------------ *)
(* Bounds of the model                                                 *)
(* ------------------------------------------------------------------ *)

\* Largest rowid a table hands out: an INSERT that would need a larger one
\* is not explored.
MaxRowId == 3

\* Largest number of full pages of rows in the stores that search is run on.
MaxPages == 2

\* Number of concurrent callers of get_conn.
MaxCallers == 3
MaxTime == 3
MaxPollers == 3

(* ------------------------------------------------------------------ *)
(* Program constants                                                   *)
(* ------------------------------------------------------------------ *)

PAGE_SIZE == 36

\* sql.rs 26: r2d2::Pool::builder().max_size(20).
max_size == 20

\* media_type::GROUP (sql.rs 436).  The media_type module is not part of the
\* sources at hand; the value follows the order of the kinds: livestream (0),
\* movie (1), series (2), group (3).
media_type_GROUP == 3

(* ------------------------------------------------------------------ *)
(* State                                                               *)
(* ------------------------------------------------------------------ *)

VARIABLES
    foreign_keys,          \* whether the connections enforce FOREIGN KEY clauses
    overflow_checks,       \* whether the build panics on integer overflow
    sources,               \* table "sources"
    channels,              \* table "channels"
    groups,                \* table "groups"
    channel_http_headers,  \* table "channel_http_headers"
    settings,              \* table "settings": key -> value
    schema,                \* the tables, indexes and added columns of the file
    user_version,          \* PRAGMA user_version, the ledger of the migrations
    held,                  \* pool connections each caller holds
    idle_in_tx,            \* idle pool connections with a transaction left open
    group_cache,           \* the name -> id map of the import batch under way
    prepared,              \* the statement search prepared last: text, parameters
    deleting,              \* the delete_source call in flight and its next statement
    importing,             \* the import transaction in flight and its pending writes
    notify_stop,           \* AppState.notify_stop, the flag every poller shares
    thread_handle,         \* AppState.thread_handle: the poller add_epg/remove_epg joins
    pollers,               \* the poller threads: their list and whether they exited
    now,                   \* the local time
    notified,              \* the notifications shown: poller, entry, time
    epgs,                  \* the scheduled entries stored
    epg_call,              \* the add_epg/remove_epg call that holds the state lock
    last                   \* the last call: name, arguments, result, tables before it

buildVars == <<foreign_keys, overflow_checks>>
tableVars == <<sources, channels, groups, channel_http_headers>>
schemaVars == <<schema, user_version>>
poolVars == <<held, idle_in_tx>>
writerVars == <<deleting, importing>>
epgVars == <<notify_stop, thread_handle, pollers, now, notified, epgs, epg_call>>
vars == <<foreign_keys, overflow_checks, sources, channels, groups,
          channel_http_headers, settings, schema, user_version, held,
          idle_in_tx, group_cache, prepared, deleting, importing, notify_stop,
          thread_handle, pollers, now, notified, epgs, epg_call, last>>

None == {}
Some(v) == {v}
IsSome(o) == o # {}
Unwrap(o) == CHOOSE v \in o : TRUE

\* SQL "a = b" on nullable operands: NULL equals nothing, not even NULL.
SqlEq(a, b) == IsSome(a) /\ IsSome(b) /\ a = b

Max(S) == CHOOSE m \in S : \A x \in S : x <= m

\* The tables as one database value.
Db == [sources |-> sources,
       channels |-> channels,
       groups |-> groups,
       channel_http_headers |-> channel_http_headers,
       settings |-> settings]

\* A map (HashMap, or the rows of the settings table) with no entry.
EmptyMap == [k \in {} |-> <<>>]

EmptyDb == [sources |-> {}, channels |-> {}, groups |-> {},
            channel_http_headers |-> {}, settings |-> EmptyMap]

\* "id" INTEGER PRIMARY KEY without AUTOINCREMENT: the next rowid is one more
\* than the largest rowid in the table.
NextRowId(table) == IF table = {} THEN 1 ELSE Max({r.id : r \in table}) + 1

WithinBounds(db) ==
    \A r \in db.sources \cup db.channels \cup db.groups
             \cup db.channel_http_headers : r.id <= MaxRowId

(* ------------------------------------------------------------------ *)
(* Foreign keys                                                        *)
(* ------------------------------------------------------------------ *)

\* No child row references a missing parent row (NULL references nothing).
FkOk(db) ==
    /\ \A c \in db.channels :
          /\ IsSome(c.source_id) => \E s \in db.sources : Some(s.id) = c.source_id
          /\ IsSome(c.group_id) => \E g \in db.groups : Some(g.id) = c.group_id
    /\ \A g \in db.groups :
          IsSome(g.source_id) => \E s \in db.sources : Some(s.id) = g.source_id
    /\ \A h \in db.channel_http_headers :
          IsSome(h.channel_id) => \E c \in db.channels : Some(c.id) = h.channel_id

\* ON DELETE CASCADE of channel_http_headers.channel_id, when enforced.
CascadeHeaders(db) ==
    IF foreign_keys
    THEN [db EXCEPT !.channel_http_headers =
            {h \in @ : IsSome(h.channel_id) =>
                           \E c \in db.channels : Some(c.id) = h.channel_id}]
    ELSE db

\* The result of one statement that turns db into db2 and changes n rows: with
\* foreign keys enforced, a statement that leaves a dangling reference fails
\* and changes nothing.
\* rowid is Some(id of the inserted row), or None when no row was inserted.
Stmt(db, db2, n, rowid) ==
    IF foreign_keys /\ ~FkOk(db2)
    THEN [ok |-> FALSE, db |-> db, changes |-> 0, rowid |-> None]
    ELSE [ok |-> TRUE, db |-> db2, changes |-> n, rowid |-> rowid]

\* What a pub fn returns: Ok(ret) or Err, and the database it leaves.
Ok(db, ret) == [ok |-> TRUE, db |-> db, ret |-> ret]
Err(db) == [ok |-> FALSE, db |-> db, ret |-> None]
Unit == "()"

(* ------------------------------------------------------------------ *)
(* Conversions                                                         *)
(* ------------------------------------------------------------------ *)

Digits == <<"0", "1", "2", "3", "4", "5", "6", "7", "8", "9">>
DigitValue(ch) == (CHOOSE i \in 1..10 : Digits[i] = ch) - 1
IsDigit(ch) == \E i \in 1..10 : Digits[i] = ch

RECURSIVE ToDigits(_)
ToDigits(n) ==
    IF n < 10 THEN <<Digits[n + 1]>>
    ELSE ToDigits(n \div 10) \o <<Digits[(n % 10) + 1]>>

\* i64::to_string: the decimal text of n.
I64ToString(n) == IF n < 0 THEN <<"-">> \o ToDigits(-n) ELSE ToDigits(n)

RECURSIVE DigitsToInt(_)
DigitsToInt(t) ==
    IF Len(t) = 0 THEN 0
    ELSE 10 * DigitsToInt(SubSeq(t, 1, Len(t) - 1)) + DigitValue(t[Len(t)])

\* A TEXT operand compared with a column of INTEGER affinity is converted to
\* an integer when it is the text of one; otherwise it stays TEXT, which
\* equals no integer (here: None).
IntegerAffinity(t) ==
    LET neg == Len(t) > 0 /\ t[1] = "-"
        body == IF neg THEN SubSeq(t, 2, Len(t)) ELSE t
    IN  IF Len(body) > 0 /\ \A i \in 1..Len(body) : IsDigit(body[i])
        THEN Some(IF neg THEN -DigitsToInt(body) ELSE DigitsToInt(body))
        ELSE None

\* bool bound as an SQL parameter.
BoolToSql(b) == IF b THEN 1 ELSE 0

(* ------------------------------------------------------------------ *)
(* Sources                                                             *)
(* ------------------------------------------------------------------ *)

\* Mutant: the INSERT without the lookup by name.
create_or_find_source_by_name_NoLookup(db, source) ==
    LET id == NextRowId(db.sources)
    IN  Ok([db EXCEPT !.sources = @ \cup {[id |-> id, name |-> source.name]}], id)

\* sql.rs 161-177.  query_row(..).optional() gives the first matching row.
create_or_find_source_by_name(db, source) ==
    LET found == {s.id : s \in {s \in db.sources : s.name = source.name}}
        id == NextRowId(db.sources)
        ins == Stmt(db, [db EXCEPT !.sources = @ \cup {[id |-> id, name |-> source.name]}],
                    1, Some(id))
    IN  IF found # {} THEN Ok(db, CHOOSE i \in found : \A j \in found : i <= j)
        ELSE IF ~ins.ok THEN Err(ins.db)
        ELSE Ok(ins.db, Unwrap(ins.rowid))

(* ------------------------------------------------------------------ *)
(* Channels                                                            *)
(* ------------------------------------------------------------------ *)

\* Rows that collide with (name, url, source_id) in the unique index
\* channels_unique of the migration (sql.rs 134): NULLs are distinct.
ChannelConflicts(db, name, url, source_id) ==
    {r \in db.channels :
        r.name = name /\ SqlEq(r.url, url) /\ SqlEq(r.source_id, source_id)}

\* sql.rs 179-197: INSERT OR IGNORE INTO channels.
ExecInsertChannel(db, c) ==
    LET id == NextRowId(db.channels)
        row == [id |-> id, name |-> c.name, group_id |-> c.group_id,
                image |-> c.image, url |-> c.url, source_id |-> c.source_id,
                media_type |-> c.media_type, series_id |-> c.series_id,
                favorite |-> BoolToSql(c.favorite)]
    IN  IF ChannelConflicts(db, c.name, c.url, c.source_id) # {}
        THEN Stmt(db, db, 0, None)
        ELSE Stmt(db, [db EXCEPT !.channels = @ \cup {row}], 1, Some(id))

insert_channel(db, channel) ==
    LET st == ExecInsertChannel(db, channel)
    IN  IF st.ok THEN Ok(st.db, Unit) ELSE Err(st.db)

\* Mutant: the DELETE without "AND favorite = 0".
delete_channels_by_source_AnyFavorite(db, source_id) ==
    LET gone == {c \in db.channels : SqlEq(c.source_id, Some(source_id))}
    IN  Ok(CascadeHeaders([db EXCEPT !.channels = @ \ gone]), Unit)

\* sql.rs 462-473: the source id is bound as TEXT (source_id.to_string()).
delete_channels_by_source(db, source_id) ==
    LET param == IntegerAffinity(I64ToString(source_id))
        gone == {c \in db.channels : SqlEq(c.source_id, param) /\ c.favorite = 0}
        st == Stmt(db, CascadeHeaders([db EXCEPT !.channels = @ \ gone]),
                   Cardinality(gone), None)
    IN  IF st.ok THEN Ok(st.db, Unit) ELSE Err(st.db)

\* sql.rs 547-558.
favorite_channel(db, channel_id, favorite) ==
    LET st == Stmt(db,
                   [db EXCEPT !.channels =
                       {IF r.id = channel_id
                        THEN [r EXCEPT !.favorite = BoolToSql(favorite)] ELSE r
                        : r \in @}],
                   Cardinality({r \in db.channels : r.id = channel_id}), None)
    IN  IF st.ok THEN Ok(st.db, Unit) ELSE Err(st.db)

(* ------------------------------------------------------------------ *)
(* Groups                                                              *)
(* ------------------------------------------------------------------ *)

\* sql.rs 750-759: plain INSERT; index_group_unique (sql.rs 88) rejects a
\* second (name, source_id).
add_custom_group(db, group) ==
    LET id == NextRowId(db.groups)
        clash == \E g \in db.groups :
                    g.name = group.name /\ SqlEq(g.source_id, group.source_id)
        st == Stmt(db, [db EXCEPT !.groups = @ \cup
                          {[id |-> id, name |-> group.name,
                            source_id |-> group.source_id]}], 1, Some(id))
    IN  IF clash \/ ~st.ok THEN Err(db) ELSE Ok(st.db, Unwrap(st.rowid))

\* sql.rs 215-232: INSERT OR IGNORE INTO groups; index_group_unique (sql.rs
\* 88) makes the engine ignore a second (name, source_id), and 0 changed rows
\* is turned into an error.
insert_group(db, group, image, source_id) ==
    LET id == NextRowId(db.groups)
        clash == \E g \in db.groups :
                    g.name = group /\ SqlEq(g.source_id, Some(source_id))
        st == IF clash THEN Stmt(db, db, 0, None)
              ELSE Stmt(db, [db EXCEPT !.groups = @ \cup
                               {[id |-> id, name |-> group,
                                 source_id |-> Some(source_id)]}], 1, Some(id))
    IN  IF ~st.ok THEN Err(db)
        ELSE IF st.changes = 0 THEN Err(db)
        ELSE Ok(st.db, Unwrap(st.rowid))

\* Mutant: the cache is not consulted, every call inserts.
set_channel_group_id_NoCache(db, cache, channel, source_id) ==
    IF ~IsSome(channel.group)
    THEN Ok(db, [groups |-> cache, channel |-> channel])
    ELSE LET name == Unwrap(channel.group)
             r == insert_group(db, name, channel.image, source_id)
         IN  IF ~r.ok
             THEN [ok |-> FALSE, db |-> r.db,
                   ret |-> [groups |-> cache, channel |-> channel]]
             ELSE Ok(r.db,
                     [groups |-> [n \in DOMAIN cache \cup {name} |->
                                     IF n = name THEN r.ret ELSE cache[n]],
                      channel |-> [channel EXCEPT !.group_id = Some(r.ret)]])

\* sql.rs 234-258.  The result carries the cache and the channel as the call
\* leaves them.
set_channel_group_id(db, cache, channel, source_id) ==
    IF ~IsSome(channel.group)
    THEN Ok(db, [groups |-> cache, channel |-> channel])
    ELSE LET name == Unwrap(channel.group)
         IN  IF name \notin DOMAIN cache
             THEN LET r == insert_group(db, name, channel.image, source_id)
                  IN  IF ~r.ok
                      THEN [ok |-> FALSE, db |-> r.db,
                            ret |-> [groups |-> cache, channel |-> channel]]
                      ELSE Ok(r.db,
                              [groups |-> [n \in DOMAIN cache \cup {name} |->
                                              IF n = name THEN r.ret ELSE cache[n]],
                               channel |-> [channel EXCEPT !.group_id = Some(r.ret)]])
             ELSE Ok(db, [groups |-> cache,
                          channel |-> [channel EXCEPT !.group_id = Some(cache[name])]])

\* sql.rs 475-490: DELETE FROM groups WHERE source_id = ? AND id NOT IN
\* (SELECT group_id FROM channels WHERE favorite = 1).  "x NOT IN (list)" is
\* false when x is in the list, NULL when it is not and the list holds a
\* NULL, and true otherwise; the DELETE takes the rows where it is true.
delete_groups_by_source(db, source_id) ==
    LET list == {c.group_id : c \in {c \in db.channels : c.favorite = 1}}
        notIn(x) == /\ ~\E v \in list : SqlEq(x, v)
                    /\ ~\E v \in list : v = None
        gone == {g \in db.groups :
                    SqlEq(g.source_id, Some(source_id)) /\ notIn(Some(g.id))}
        st == Stmt(db, [db EXCEPT !.groups = @ \ gone], Cardinality(gone), None)
    IN  IF st.ok THEN Ok(st.db, Unit) ELSE Err(st.db)

(* ------------------------------------------------------------------ *)
(* Source deletion                                                     *)
(* ------------------------------------------------------------------ *)

\* Mutant: the channels DELETE of the refresh (favorites kept) in place of
\* the unconditional one.
delete_source_KeepFavorites(db, id) ==
    LET chGone == {c \in db.channels : SqlEq(c.source_id, Some(id)) /\ c.favorite = 0}
        grGone == {g \in db.groups : SqlEq(g.source_id, Some(id))}
        srGone == {s \in db.sources : s.id = id}
        s3 == Stmt(db, [db EXCEPT !.channels = @ \ chGone, !.groups = @ \ grGone,
                                  !.sources = @ \ srGone], Cardinality(srGone), None)
    IN  IF ~s3.ok \/ s3.changes # 1 THEN Err(s3.db) ELSE Ok(s3.db, Unit)

\* sql.rs 492-519: three statements on a plain connection, each committed
\* as it completes.
delete_source(db, id) ==
    LET chGone == {c \in db.channels : SqlEq(c.source_id, Some(id))}
        s1 == Stmt(db, CascadeHeaders([db EXCEPT !.channels = @ \ chGone]),
                   Cardinality(chGone), None)
        grGone == {g \in s1.db.groups : SqlEq(g.source_id, Some(id))}
        s2 == Stmt(s1.db, [s1.db EXCEPT !.groups = @ \ grGone],
                   Cardinality(grGone), None)
        srGone == {s \in s2.db.sources : s.id = id}
        s3 == Stmt(s2.db, [s2.db EXCEPT !.sources = @ \ srGone],
                   Cardinality(srGone), None)
    IN  IF ~s1.ok THEN Err(s1.db)
        ELSE IF ~s2.ok THEN Err(s2.db)
        ELSE IF ~s3.ok THEN Err(s3.db)
        ELSE IF s3.changes # 1 THEN Err(s3.db)
        ELSE Ok(s3.db, Unit)

\* sql.rs 832-852: on a plain connection, so each statement is committed as
\* it completes.  The UPDATE runs only when do_channels_update is set.
delete_custom_group(db, id, new_id, do_channels_update) ==
    LET hit == {c \in db.channels : SqlEq(c.group_id, Some(id))}
        s1 == IF do_channels_update
              THEN Stmt(db, [db EXCEPT !.channels =
                                (@ \ hit) \cup {[c EXCEPT !.group_id = new_id] : c \in hit}],
                        Cardinality(hit), None)
              ELSE Stmt(db, db, 0, None)
        gone == {g \in s1.db.groups : g.id = id}
        s2 == Stmt(s1.db, [s1.db EXCEPT !.groups = @ \ gone], Cardinality(gone), None)
    IN  IF ~s1.ok THEN Err(s1.db)
        ELSE IF ~s2.ok THEN Err(s2.db)
        ELSE Ok(s2.db, Unit)

\* sql.rs 494-515: statement n (1, 2, 3) of delete_source alone.
delete_source_statement(db, id, n) ==
    LET chGone == {c \in db.channels : SqlEq(c.source_id, Some(id))}
        grGone == {g \in db.groups : SqlEq(g.source_id, Some(id))}
        srGone == {s \in db.sources : s.id = id}
    IN  CASE n = 1 -> Stmt(db, CascadeHeaders([db EXCEPT !.channels = @ \ chGone]),
                           Cardinality(chGone), None)
          [] n = 2 -> Stmt(db, [db EXCEPT !.groups = @ \ grGone],
                           Cardinality(grGone), None)
          [] OTHER -> Stmt(db, [db EXCEPT !.sources = @ \ srGone],
                           Cardinality(srGone), None)

(* ------------------------------------------------------------------ *)
(* Custom channels                                                     *)
(* ------------------------------------------------------------------ *)

\* A statement that the engine fails for a reason of its own (SQLITE_BUSY,
\* an I/O error, a full disk): nothing of it is applied.
Failed(db) == [ok |-> FALSE, db |-> db, changes |-> 0, rowid |-> None]

\* sql.rs 199-213: INSERT OR IGNORE INTO channel_http_headers (channel_id,
\* referrer, user_agent, http_origin).  ignore_ssl is not among the columns,
\* so the row takes the column's DEFAULT 0 (sql.rs 141); the unique index on
\* channel_id (sql.rs 144) makes the engine ignore a second row of a channel.
ExecInsertHeaders(db, headers) ==
    LET id == NextRowId(db.channel_http_headers)
        clash == \E h \in db.channel_http_headers :
                    SqlEq(h.channel_id, headers.channel_id)
        row == [id |-> id, channel_id |-> headers.channel_id,
                referrer |-> headers.referrer, user_agent |-> headers.user_agent,
                http_origin |-> headers.http_origin, ignore_ssl |-> Some(0)]
    IN  IF clash THEN Stmt(db, db, 0, None)
        ELSE Stmt(db, [db EXCEPT !.channel_http_headers = @ \cup {row}], 1, Some(id))

insert_channel_headers(db, headers) ==
    LET st == ExecInsertHeaders(db, headers)
    IN  IF st.ok THEN Ok(st.db, Unit) ELSE Err(st.db)

\* bool as FromSql: an integer column read as a bool is "not zero".
SqlToBool(v) == IF v = 0 THEN 0 ELSE 1

\* sql.rs 272-281.
row_to_channel_headers(row) ==
    [id |-> Some(row.id), channel_id |-> row.channel_id,
     http_origin |-> row.http_origin, referrer |-> row.referrer,
     user_agent |-> row.user_agent,
     ignore_ssl |-> {SqlToBool(v) : v \in row.ignore_ssl}]

\* sql.rs 260-270: query_row(..).optional() gives the first matching row.
get_channel_headers_by_id(db, id) ==
    LET hit == {h \in db.channel_http_headers : SqlEq(h.channel_id, Some(id))}
        first == CHOOSE h \in hit : \A k \in hit : h.id <= k.id
    IN  Ok(db, IF hit = {} THEN None ELSE Some(row_to_channel_headers(first)))

\* sql.rs 631-636.
channel_headers_empty(headers) ==
    /\ ~IsSome(headers.ignore_ssl)
    /\ ~IsSome(headers.http_origin)
    /\ ~IsSome(headers.referrer)
    /\ ~IsSome(headers.user_agent)

\* sql.rs 619-629.  last_insert_rowid is the rowid of the channel when the
\* INSERT OR IGNORE stored it; when the insert was ignored it is still what
\* the connection's last successful INSERT left, here stale.
add_custom_channel(db, channel, stale) ==
    LET s1 == ExecInsertChannel(db, channel.data)
        last_insert_rowid == IF IsSome(s1.rowid) THEN Unwrap(s1.rowid) ELSE stale
    IN  IF ~s1.ok THEN Err(s1.db)
        ELSE IF ~IsSome(channel.headers) THEN Ok(s1.db, Unit)
        ELSE IF channel_headers_empty(Unwrap(channel.headers)) THEN Ok(s1.db, Unit)
        ELSE insert_channel_headers(s1.db,
                 [Unwrap(channel.headers) EXCEPT !.channel_id = Some(last_insert_rowid)])

\* sql.rs 668-682: UPDATE channels SET name, image, url, media_type, group_id
\* WHERE id = ?.  channels_unique (sql.rs 134) rejects the update when the new
\* (name, url, source_id) is that of another row.
ExecUpdateChannel(db, data) ==
    LET hit == {r \in db.channels : SqlEq(Some(r.id), data.id)}
        upd(r) == [r EXCEPT !.name = data.name, !.image = data.image,
                            !.url = data.url, !.media_type = data.media_type,
                            !.group_id = data.group_id]
        clash == \E r \in hit :
                    ChannelConflicts(db, data.name, data.url, r.source_id) \ {r} # {}
    IN  IF clash THEN Failed(db)
        ELSE Stmt(db, [db EXCEPT !.channels = (@ \ hit) \cup {upd(r) : r \in hit}],
                  Cardinality(hit), None)

\* Mutant: ON CONFLICT(channel_id) DO NOTHING.
ExecUpsertHeaders_KeepExisting(db, headers) ==
    LET hit == {h \in db.channel_http_headers : SqlEq(h.channel_id, headers.channel_id)}
        id == NextRowId(db.channel_http_headers)
        row == [id |-> id, channel_id |-> headers.channel_id,
                referrer |-> headers.referrer, user_agent |-> headers.user_agent,
                http_origin |-> headers.http_origin, ignore_ssl |-> headers.ignore_ssl]
    IN  IF hit # {} THEN Stmt(db, db, 0, None)
        ELSE Stmt(db, [db EXCEPT !.channel_http_headers = @ \cup {row}], 1, Some(id))

\* sql.rs 685-702: INSERT INTO channel_http_headers .. ON CONFLICT(channel_id)
\* DO UPDATE SET referrer, user_agent, http_origin, ignore_ssl.
ExecUpsertHeaders(db, headers) ==
    LET hit == {h \in db.channel_http_headers : SqlEq(h.channel_id, headers.channel_id)}
        id == NextRowId(db.channel_http_headers)
        upd(h) == [h EXCEPT !.referrer = headers.referrer,
                            !.user_agent = headers.user_agent,
                            !.http_origin = headers.http_origin,
                            !.ignore_ssl = headers.ignore_ssl]
        row == [id |-> id, channel_id |-> headers.channel_id,
                referrer |-> headers.referrer, user_agent |-> headers.user_agent,
                http_origin |-> headers.http_origin, ignore_ssl |-> headers.ignore_ssl]
    IN  IF hit # {}
        THEN Stmt(db, [db EXCEPT !.channel_http_headers =
                          (@ \ hit) \cup {upd(h) : h \in hit}], 1, None)
        ELSE Stmt(db, [db EXCEPT !.channel_http_headers = @ \cup {row}], 1, Some(id))

\* sql.rs 704-707: DELETE FROM channel_http_headers WHERE channel_id = ?.
ExecDeleteHeaders(db, channel_id) ==
    LET hit == {h \in db.channel_http_headers : SqlEq(h.channel_id, channel_id)}
    IN  Stmt(db, [db EXCEPT !.channel_http_headers = @ \ hit], Cardinality(hit), None)

\* sql.rs 667-710.  fault names the statement (1 or 2) the engine fails, 0 for
\* none.
edit_custom_channel_tx(db, channel, fault) ==
    LET s1 == IF fault = 1 THEN Failed(db) ELSE ExecUpdateChannel(db, channel.data)
        s2 == IF fault = 2 THEN Failed(s1.db)
              ELSE IF IsSome(channel.headers)
              THEN ExecUpsertHeaders(s1.db,
                       [Unwrap(channel.headers) EXCEPT !.channel_id = channel.data.id])
              ELSE ExecDeleteHeaders(s1.db, channel.data.id)
    IN  IF ~s1.ok THEN Err(s1.db)
        ELSE IF ~s2.ok THEN Err(s2.db)
        ELSE Ok(s2.db, Unit)

\* Mutant: the statements run without the enclosing transaction, so nothing
\* is rolled back.
edit_custom_channel_NoRollback(db, channel, fault) ==
    LET r == edit_custom_channel_tx(db, channel, fault)
    IN  IF r.ok /\ fault # 3 THEN r ELSE Err(r.db)

\* sql.rs 652-665: commit on Ok, roll back on Err.  fault 3 fails the COMMIT:
\* the transaction is then dropped, which rolls it back.
edit_custom_channel(db, channel, fault) ==
    LET r == edit_custom_channel_tx(db, channel, fault)
    IN  IF r.ok /\ fault # 3 THEN Ok(r.db, Unit) ELSE Err(db)

(* ------------------------------------------------------------------ *)
(* Settings                                                            *)
(* ------------------------------------------------------------------ *)

\* Mutant: a plain INSERT, which the primary key rejects for a stored key.
ExecUpsertSetting_InsertOnly(db, key, value) ==
    IF key \in DOMAIN db.settings THEN Failed(db)
    ELSE Stmt(db, [db EXCEPT !.settings = @ @@ (key :> value)], 1, None)

\* sql.rs 301-308: INSERT INTO Settings .. ON CONFLICT(key) DO UPDATE SET value.
ExecUpsertSetting(db, key, value) ==
    IF key \in DOMAIN db.settings
    THEN Stmt(db, [db EXCEPT !.settings = [@ EXCEPT ![key] = value]], 1, None)
    ELSE Stmt(db, [db EXCEPT !.settings = @ @@ (key :> value)], 1, None)

\* sql.rs 300-309: the loop over the entries of the map, in the order the
\* HashMap yields them; the first failing statement ends it.
RECURSIVE UpsertSettings(_, _)
UpsertSettings(db, map) ==
    IF DOMAIN map = {} THEN Ok(db, Unit)
    ELSE LET key == CHOOSE k \in DOMAIN map : TRUE
             st == ExecUpsertSetting(db, key, map[key])
         IN  IF ~st.ok THEN Err(st.db)
             ELSE UpsertSettings(st.db, [k \in DOMAIN map \ {key} |-> map[k]])

\* sql.rs 297-312: one transaction around the loop.
update_settings(db, map) ==
    LET r == UpsertSettings(db, map)
    IN  IF r.ok THEN Ok(r.db, Unit) ELSE Err(db)

\* sql.rs 283-295: the rows of the table as a map.
get_settings(db) == Ok(db, [k \in DOMAIN db.settings |-> db.settings[k]])

(* ------------------------------------------------------------------ *)
(* Search                                                              *)
(* ------------------------------------------------------------------ *)

\* view_type constants (the module is not in sql.rs; only their identity
\* matters here).
view_type_ALL == "ALL"
view_type_CATEGORIES == "CATEGORIES"
view_type_FAVORITES == "FAVORITES"

\* Integer arithmetic of width w on unsigned operands: the wrapped value, and
\* whether the exact result is out of range.
MulW(a, b, w) == [val |-> (a * b) % (2 ^ w), ovf |-> a * b >= 2 ^ w]
SubW(a, b, w) == [val |-> (a - b + 2 ^ w) % (2 ^ w), ovf |-> a < b]

\* sql.rs 399-401.
to_sql_like(query) ==
    IF IsSome(query) THEN <<"%">> \o Unwrap(query) \o <<"%">> ELSE <<"%">>

\* ASCII case folding of LIKE.
Fold(ch) == CASE ch = "A" -> "a" [] ch = "B" -> "b" [] OTHER -> ch

\* SQLite's LIKE: % matches any run of characters, _ any one character,
\* letters match without regard to case.
RECURSIVE Like(_, _)
Like(text, pattern) ==
    IF pattern = <<>> THEN text = <<>>
    ELSE IF Head(pattern) = "%"
         THEN Like(text, Tail(pattern)) \/ (text # <<>> /\ Like(Tail(text), pattern))
    ELSE IF text = <<>> THEN FALSE
    ELSE /\ Head(pattern) = "_" \/ Fold(Head(pattern)) = Fold(Head(text))
         /\ Like(Tail(text), Tail(pattern))

\* sql.rs 374-379: size placeholders joined by commas.
generate_placeholders(size) ==
    [i \in 1..(IF size = 0 THEN 0 ELSE 2 * size - 1) |->
        IF i % 2 = 1 THEN "?" ELSE ","]

\* "x IN (?, .., ?)" with the values bound to a placeholder list: SQLite
\* accepts the empty list, and then no row matches.
InList(x, placeholders, values) ==
    \E i \in 1..Len(values) :
        /\ placeholders[2 * i - 1] = "?"
        /\ SqlEq(x, Some(values[i]))

\* The rows of a set in rowid order (the order of the table scan).
RowsInOrder(rows) ==
    LET rank == [r \in rows |-> Cardinality({q \in rows : q.id < r.id})]
    IN  [i \in 1..Cardinality(rows) |-> CHOOSE r \in rows : rank[r] = i - 1]

\* "LIMIT offset, count" over the matching rows in scan order.
Limit(rows, offset, count) ==
    LET rank == [r \in rows |-> Cardinality({q \in rows : q.id < r.id})]
    IN  RowsInOrder({r \in rows : offset <= rank[r] /\ rank[r] < offset + count})

\* sql.rs 430-444.
row_to_group(row) ==
    [id |-> row.id, name |-> row.name, group |-> None, image |-> None,
     media_type |-> media_type_GROUP, url |-> None, series_id |-> None,
     group_id |-> None, favorite |-> FALSE, source_id |-> row.source_id]

\* sql.rs 446-460.
row_to_channel(row) ==
    [id |-> row.id, name |-> row.name, group_id |-> row.group_id,
     image |-> row.image, media_type |-> row.media_type,
     source_id |-> row.source_id, url |-> row.url,
     favorite |-> row.favorite # 0, series_id |-> None, group |-> None]

Panic(shape) == [ok |-> FALSE, status |-> "Panic", shape |-> shape, rows |-> <<>>]
Found(shape, rows) == [ok |-> TRUE, status |-> "Ok", shape |-> shape, rows |-> rows]

\* sql.rs 403-428: the offset is computed in the width of the page field, u8.
search_group(db, filters) ==
    LET mul == MulW(filters.page, PAGE_SIZE, 8)
        offset == SubW(mul.val, PAGE_SIZE, 8)
        query == to_sql_like(filters.query)
        placeholders == generate_placeholders(Len(filters.source_ids))
        matching == {g \in db.groups :
                        /\ Like(g.name, query)
                        /\ InList(g.source_id, placeholders, filters.source_ids)}
        page == Limit(matching, offset.val, PAGE_SIZE)
    IN  IF overflow_checks /\ (mul.ovf \/ offset.ovf) THEN Panic("groups")
        ELSE Found("groups", [i \in 1..Len(page) |-> row_to_group(page[i])])

\* Mutant: the decision on the view alone.
IsGroupBrowse_ViewOnly(filters) == filters.view_type = view_type_CATEGORIES

\* sql.rs 315-317.
IsGroupBrowse(filters) ==
    /\ filters.view_type = view_type_CATEGORIES
    /\ ~IsSome(filters.group_id)
    /\ ~IsSome(filters.series_id)

\* Mutant: the offset of the page after.
SearchOffset_NextPage(page) ==
    SubW(MulW(page + 1, PAGE_SIZE, 16).val, PAGE_SIZE, 16)

\* sql.rs 322: page as u16 * PAGE_SIZE as u16 - PAGE_SIZE as u16.
SearchOffset(page) ==
    LET mul == MulW(page, PAGE_SIZE, 16)
        sub == SubW(mul.val, PAGE_SIZE, 16)
    IN  [val |-> sub.val, ovf |-> mul.ovf \/ sub.ovf]

\* Mutant: "AND favorite = 1" for the FAVORITES view even under a series scope.
ChannelMatches_FavoritesUnderSeries(db, filters, media_types) ==
    {c \in db.channels :
        /\ Like(c.name, to_sql_like(filters.query))
        /\ \E i \in 1..Len(media_types) : c.media_type = media_types[i]
        /\ \E i \in 1..Len(filters.source_ids) : c.source_id = Some(filters.source_ids[i])
        /\ IsSome(c.url)
        /\ filters.view_type = view_type_FAVORITES => c.favorite = 1
        /\ IF IsSome(filters.series_id) THEN SqlEq(c.series_id, filters.series_id)
           ELSE IF IsSome(filters.group_id) THEN SqlEq(c.group_id, filters.group_id)
           ELSE TRUE}

\* sql.rs 323-347, 355-359: the rows the channel query matches.
ChannelMatches(db, filters, media_types) ==
    LET query == to_sql_like(filters.query)
        mediaPlaceholders == generate_placeholders(Len(media_types))
        sourcePlaceholders == generate_placeholders(Len(filters.source_ids))
    IN  {c \in db.channels :
            /\ Like(c.name, query)
            /\ InList(Some(c.media_type), mediaPlaceholders, media_types)
            /\ InList(c.source_id, sourcePlaceholders, filters.source_ids)
            /\ IsSome(c.url)
            /\ (filters.view_type = view_type_FAVORITES /\ ~IsSome(filters.series_id))
                  => c.favorite = 1
            /\ IF IsSome(filters.series_id) THEN SqlEq(c.series_id, filters.series_id)
               ELSE IF IsSome(filters.group_id) THEN SqlEq(c.group_id, filters.group_id)
               ELSE TRUE}

\* sql.rs 314-368.
search(db, filters) ==
    IF IsGroupBrowse(filters) THEN search_group(db, filters)
    ELSE LET offset == SearchOffset(filters.page)
             media_types == IF IsSome(filters.series_id) THEN <<1>>
                            ELSE Unwrap(filters.media_types)
             page == Limit(ChannelMatches(db, filters, media_types),
                           offset.val, PAGE_SIZE)
         IN  IF overflow_checks /\ offset.ovf THEN Panic("channels")
             ELSE IF ~IsSome(filters.series_id) /\ ~IsSome(filters.media_types)
             THEN Panic("channels")
             ELSE Found("channels", [i \in 1..Len(page) |-> row_to_channel(page[i])])

\* A bound parameter: its storage class and its value.
TextParam(t) == <<"text", t>>
IntParam(n) == <<"integer", n>>
IntParams(values) == [i \in 1..Len(values) |-> IntParam(values[i])]

\* sql.rs 327-348: the text of the channel query, as a sequence of pieces in
\* which every placeholder and every comma of a list is a piece of its own.
search_sql(filters, media_types) ==
    <<"SELECT * FROM CHANNELS WHERE name LIKE", "?", "AND media_type IN (">>
    \o generate_placeholders(Len(media_types))
    \o <<")", "AND source_id IN (">>
    \o generate_placeholders(Len(filters.source_ids))
    \o <<")", "AND url IS NOT NULL">>
    \o (IF filters.view_type = view_type_FAVORITES /\ ~IsSome(filters.series_id)
        THEN <<"AND favorite = 1">> ELSE <<>>)
    \o (IF IsSome(filters.series_id) THEN <<"AND series_id =", "?">>
        ELSE IF IsSome(filters.group_id) THEN <<"AND group_id =", "?">>
        ELSE <<>>)
    \o <<"LIMIT", "?", ",", "?">>

\* Mutant: the source ids pushed before the media kinds.
search_params_SourcesFirst(filters, media_types, offset) ==
    <<TextParam(to_sql_like(filters.query))>>
    \o IntParams(filters.source_ids)
    \o IntParams(media_types)
    \o (IF IsSome(filters.series_id) THEN <<IntParam(Unwrap(filters.series_id))>>
        ELSE IF IsSome(filters.group_id) THEN <<IntParam(Unwrap(filters.group_id))>>
        ELSE <<>>)
    \o <<IntParam(offset), IntParam(PAGE_SIZE)>>

\* sql.rs 349-361: the parameters of the channel query, in push order.
search_params(filters, media_types, offset) ==
    <<TextParam(to_sql_like(filters.query))>>
    \o IntParams(media_types)
    \o IntParams(filters.source_ids)
    \o (IF IsSome(filters.series_id) THEN <<IntParam(Unwrap(filters.series_id))>>
        ELSE IF IsSome(filters.group_id) THEN <<IntParam(Unwrap(filters.group_id))>>
        ELSE <<>>)
    \o <<IntParam(offset), IntParam(PAGE_SIZE)>>

\* sql.rs 407-416: the text of the group query.
search_group_sql(filters) ==
    <<"SELECT * FROM groups WHERE name like", "?", "AND source_id in (">>
    \o generate_placeholders(Len(filters.source_ids))
    \o <<")", "LIMIT", "?", ",", "?">>

\* sql.rs 406, 417-421: the parameters of the group query, in push order.
search_group_params(filters, offset) ==
    <<TextParam(to_sql_like(filters.query))>>
    \o IntParams(filters.source_ids)
    \o <<IntParam(offset), IntParam(PAGE_SIZE)>>

\* The statement that search prepares and binds for filters.
search_statement(filters) ==
    IF IsGroupBrowse(filters)
    THEN [text |-> search_group_sql(filters),
          params |-> search_group_params(filters,
                        SubW(MulW(filters.page, PAGE_SIZE, 8).val, PAGE_SIZE, 8).val)]
    ELSE LET media_types == IF IsSome(filters.series_id) THEN <<1>>
                            ELSE Unwrap(filters.media_types)
         IN  [text |-> search_sql(filters, media_types),
              params |-> search_params(filters, media_types,
                                       SearchOffset(filters.page).val)]

(* ------------------------------------------------------------------ *)
(* Transactions                                                        *)
(* ------------------------------------------------------------------ *)

\* Mutant: the closure's statements run on the plain connection.
do_tx_Autocommit(db, r) == r

\* sql.rs 952-961: r is what the closure did to db inside the transaction;
\* on Err the `?` drops the transaction, which rolls it back.
do_tx(db, r) == IF r.ok THEN r ELSE Err(db)

\* The connection of do_tx.  Connection::transaction begins a transaction,
\* Transaction::commit ends it, and so does the drop of a Transaction that was
\* not committed (DropBehavior::Rollback).
Transaction(conn) == [conn EXCEPT !.in_tx = TRUE]
Commit(conn) == [conn EXCEPT !.in_tx = FALSE]
DropTransaction(conn) == [conn EXCEPT !.in_tx = FALSE]

\* sql.rs 956-960: the connection as do_tx gives it back to the pool.
do_tx_conn(r) ==
    LET tx == Transaction([in_tx |-> FALSE])
    IN  IF r.ok THEN Commit(tx) ELSE DropTransaction(tx)

\* A closure handed to do_tx, as the import code writes them: find or create
\* the source, insert the channels under it, and give back the source id, or
\* an error of its own once the writes are made.
RECURSIVE InsertAll(_, _, _)
InsertAll(db, names, source_id) ==
    IF names = <<>> THEN Ok(db, Unit)
    ELSE LET r == insert_channel(db, [name |-> Head(names), url |-> Some(<<"u">>),
                                      source_id |-> Some(source_id), group_id |-> None,
                                      favorite |-> FALSE, image |-> None,
                                      media_type |-> 0, series_id |-> None])
         IN  IF ~r.ok THEN r ELSE InsertAll(r.db, Tail(names), source_id)

RunClosure(db, closure) ==
    LET s == create_or_find_source_by_name(db, [name |-> closure.source])
        c == InsertAll(s.db, closure.channels, s.ret)
    IN  IF ~s.ok THEN s
        ELSE IF ~c.ok THEN c
        ELSE IF closure.fails THEN [ok |-> FALSE, db |-> c.db, ret |-> None]
        ELSE Ok(c.db, s.ret)

(* ------------------------------------------------------------------ *)
(* Schema and migrations                                               *)
(* ------------------------------------------------------------------ *)

Table(name) == [kind |-> "table", name |-> name, on |-> name, def |-> ""]
Index(name, table, columns) ==
    [kind |-> "index", name |-> name, on |-> table, def |-> columns]
Column(table, name) == [kind |-> "column", name |-> name, on |-> table, def |-> ""]

Create(obj) == [op |-> "CREATE", obj |-> obj]
CreateIfNotExists(obj) == [op |-> "CREATE IF NOT EXISTS", obj |-> obj]
DropTable(name) == [op |-> "DROP TABLE", obj |-> Table(name)]
DropIndexIfExists(name) == [op |-> "DROP INDEX IF EXISTS", obj |-> Index(name, "", "")]
AddColumn(table, name) == [op |-> "ADD COLUMN", obj |-> Column(table, name)]
UpdateColumn(table, name) == [op |-> "UPDATE", obj |-> Column(table, name)]

Named(sch, obj) == {o \in sch : o.kind = obj.kind /\ o.name = obj.name /\
                                  (obj.kind = "column" => o.on = obj.on)}
HasTable(sch, name) == Table(name) \in sch

\* One schema statement on the schema sch: whether it succeeds, and the
\* schema it leaves.
ExecSchema(sch, st) ==
    LET fail == [ok |-> FALSE, schema |-> sch]
        done(sch2) == [ok |-> TRUE, schema |-> sch2]
        exists == Named(sch, st.obj) # {}
        createable == st.obj.kind = "table" \/ HasTable(sch, st.obj.on)
    IN  CASE st.op = "CREATE" ->
                IF exists \/ ~createable THEN fail ELSE done(sch \cup {st.obj})
          [] st.op = "CREATE IF NOT EXISTS" ->
                IF exists THEN done(sch)
                ELSE IF ~createable THEN fail ELSE done(sch \cup {st.obj})
          [] st.op = "DROP TABLE" ->
                IF ~exists THEN fail ELSE done({o \in sch : o.on # st.obj.name})
          [] st.op = "DROP INDEX IF EXISTS" ->
                done(sch \ Named(sch, st.obj))
          [] st.op = "ADD COLUMN" ->
                IF exists \/ ~HasTable(sch, st.obj.on) THEN fail
                ELSE done(sch \cup {st.obj})
          [] OTHER ->
                IF exists THEN done(sch) ELSE fail

\* Connection::execute_batch: the statements in order, each committed as it
\* completes, up to the first that fails.  fault is the position of a
\* statement the engine fails for a reason of its own, 0 for none.
RECURSIVE ExecBatch(_, _, _)
ExecBatch(sch, stmts, fault) ==
    IF stmts = <<>> THEN [ok |-> TRUE, schema |-> sch]
    ELSE IF fault = 1 THEN [ok |-> FALSE, schema |-> sch]
    ELSE LET r == ExecSchema(sch, Head(stmts))
         IN  IF ~r.ok THEN r
             ELSE ExecBatch(r.schema, Tail(stmts), IF fault = 0 THEN 0 ELSE fault - 1)

\* sql.rs 43-99.
BaselineBatch ==
    <<Create(Table("sources")),
      Create(Table("channels")),
      Create(Table("settings")),
      Create(Table("groups")),
      Create(Index("index_channel_name", "channels", "name")),
      Create(Index("channels_unique", "channels", "name, url")),
      Create(Index("index_source_name", "sources", "name")),
      Create(Index("index_source_enabled", "sources", "enabled")),
      Create(Index("index_group_unique", "groups", "name, source_id")),
      Create(Index("index_group_name", "groups", "name")),
      Create(Index("index_channel_source_id", "channels", "source_id")),
      Create(Index("index_channel_favorite", "channels", "favorite")),
      Create(Index("index_channel_series_id", "channels", "series_id")),
      Create(Index("index_channel_group_id", "channels", "group_id")),
      Create(Index("index_channel_media_type", "channels", "media_type")),
      Create(Index("index_group_source_id", "groups", "source_id"))>>

\* sql.rs 41-101.
create_structure(sch) == ExecBatch(sch, BaselineBatch, 0)

\* Mutant: the check looks for the table of the migration.
structure_exists_Headers(sch) == HasTable(sch, "channel_http_headers")

\* sql.rs 103-114.
structure_exists(sch) == HasTable(sch, "channels")

\* sql.rs 132-147: the migrations, in their fixed order.
MigrationBatches ==
    <<
      <<DropIndexIfExists("channels_unique"),
        Create(Index("channels_unique", "channels", "name, url, source_id")),
        CreateIfNotExists(Table("channel_http_headers")),
        CreateIfNotExists(Index("index_channel_http_headers_channel_id",
                                "channel_http_headers", "channel_id")),
        AddColumn("sources", "use_tvg_id"),
        UpdateColumn("sources", "use_tvg_id")>>
    >>

\* Mutant: the ledger is not read, every migration is applied from the first.
to_latest_FromStart(sch, version, fault) ==
    LET r == ExecBatch(sch, MigrationBatches[1], fault)
    IN  IF r.ok THEN [ok |-> TRUE, schema |-> r.schema,
                      user_version |-> Len(MigrationBatches), applied |-> <<1>>]
        ELSE [ok |-> FALSE, schema |-> sch, user_version |-> version, applied |-> <<>>]

\* Migrations::to_latest (sql.rs 148): the migrations after user_version, in
\* order, inside a transaction that also sets user_version; any failure rolls
\* the transaction back.  fault is the statement (of the first pending
\* migration) that the engine fails, 0 for none.
RECURSIVE to_latest(_, _, _)
to_latest(sch, version, fault) ==
    IF version >= Len(MigrationBatches)
    THEN [ok |-> version = Len(MigrationBatches), schema |-> sch,
          user_version |-> version, applied |-> <<>>]
    ELSE LET r == ExecBatch(sch, MigrationBatches[version + 1], fault)
             rest == to_latest(r.schema, version + 1, 0)
         IN  IF r.ok /\ rest.ok
             THEN [rest EXCEPT !.applied = <<version + 1>> \o @]
             ELSE [ok |-> FALSE, schema |-> sch, user_version |-> version,
                   applied |-> <<>>]

\* sql.rs 129-151.
apply_migrations(sch, version, fault) == to_latest(sch, version, fault)

\* sql.rs 121-127.
create_or_initialize_db(sch, version, fault) ==
    LET s1 == IF structure_exists(sch) THEN [ok |-> TRUE, schema |-> sch]
              ELSE create_structure(sch)
    IN  IF ~s1.ok
        THEN [ok |-> FALSE, schema |-> s1.schema, user_version |-> version,
              applied |-> <<>>]
        ELSE apply_migrations(s1.schema, version, fault)

\* sql.rs 156.
DropBatch ==
    <<DropTable("channels"), DropTable("groups"), DropTable("sources"),
      DropTable("settings")>>

\* The rows left once the tables of sch that are not in sch2 are dropped.
\* DROP TABLE deletes the rows of the table first, and where FOREIGN KEY
\* clauses are enforced that delete cascades to channel_http_headers.
DropRows(db, sch, sch2, fk) ==
    LET gone(name) == HasTable(sch, name) /\ ~HasTable(sch2, name)
    IN  [sources |-> IF gone("sources") THEN {} ELSE db.sources,
         channels |-> IF gone("channels") THEN {} ELSE db.channels,
         groups |-> IF gone("groups") THEN {} ELSE db.groups,
         channel_http_headers |->
             IF gone("channels") /\ fk THEN {} ELSE db.channel_http_headers,
         settings |-> IF gone("settings") THEN EmptyMap ELSE db.settings]

\* sql.rs 153-159.
drop_db(sch, db, fk) ==
    LET r == ExecBatch(sch, DropBatch, 0)
    IN  [ok |-> r.ok, schema |-> r.schema, db |-> DropRows(db, sch, r.schema, fk)]

\* sql.rs 146: the rows the migrations in applied rewrite.
MigrateRows(db, applied) ==
    IF applied = <<>> THEN db
    ELSE [db EXCEPT !.sources =
             {IF s.source_type \in {0, 1} THEN [s EXCEPT !.use_tvg_id = Some(1)]
              ELSE s : s \in @}]

\* The schema of a file that create_or_initialize_db has set up.
CurrentSchema == create_or_initialize_db({}, 0, 0).schema

(* ------------------------------------------------------------------ *)
(* Connection pool                                                     *)
(* ------------------------------------------------------------------ *)

Callers == 1..MaxCallers

RECURSIVE SumOver(_, _)
SumOver(f, S) ==
    IF S = {} THEN 0
    ELSE LET x == CHOOSE x \in S : TRUE IN f[x] + SumOver(f, S \ {x})

\* Connections checked out of the pool.
Held(h) == SumOver(h, DOMAIN h)

\* Mutant: a pool that opens a new connection whenever none is idle.
try_get_Unbounded(h, caller) ==
    [ok |-> TRUE, held |-> [h EXCEPT ![caller] = @ + 1]]

\* Pool::try_get (sql.rs 21) on a pool built with max_size connections: an
\* idle connection if there is one, None at once if there is none.
try_get(h, caller) ==
    IF Held(h) < max_size
    THEN [ok |-> TRUE, held |-> [h EXCEPT ![caller] = @ + 1]]
    ELSE [ok |-> FALSE, held |-> h]

\* sql.rs 20-22: None becomes the error "No sqlite conns available".
get_conn(h, caller) == try_get(h, caller)

\* Drop of a PooledConnection: it goes back to the idle connections.
drop_conn(h, caller) == [h EXCEPT ![caller] = @ - 1]

\* What search has prepared before its first call.
NoStatement == [text |-> <<>>, params |-> <<>>]

(* ------------------------------------------------------------------ *)
(* Calls                                                               *)
(* ------------------------------------------------------------------ *)

NoCall == [op |-> "init", args |-> <<>>, ok |-> TRUE, ret |-> None, pre |-> EmptyDb]

\* One call of a pub fn: r is its result on the stored tables.
Call(op, args, r) ==
    /\ WithinBounds(r.db)
    /\ sources' = r.db.sources
    /\ channels' = r.db.channels
    /\ groups' = r.db.groups
    /\ channel_http_headers' = r.db.channel_http_headers
    /\ settings' = r.db.settings
    /\ last' = [op |-> op, args |-> args, ok |-> r.ok, ret |-> r.ret, pre |-> Db]
    /\ UNCHANGED <<buildVars, schemaVars, poolVars, group_cache, prepared,
                   writerVars, epgVars>>

\* A Channel value as the import code builds it.
Channel(name, url, source_id, group_id, favorite) ==
    [name |-> name, url |-> url, source_id |-> source_id, group_id |-> group_id,
     favorite |-> favorite, image |-> None, media_type |-> 0, series_id |-> None]

SourceNames == {<<"s">>, <<"t">>}
RowIds == 1..MaxRowId

CreateOrFindSource ==
    \E name \in SourceNames :
        Call("create_or_find_source_by_name", <<name>>,
             do_tx(Db, create_or_find_source_by_name(Db, [name |-> name])))

InsertChannelOf(inputs) ==
    \E c \in inputs :
        Call("insert_channel", <<c>>, do_tx(Db, insert_channel(Db, c)))

AddCustomGroupOf(inputs) ==
    \E g \in inputs :
        Call("add_custom_group", <<g>>, do_tx(Db, add_custom_group(Db, g)))

FavoriteChannel ==
    \E id \in RowIds, favorite \in BOOLEAN :
        Call("favorite_channel", <<id, favorite>>, favorite_channel(Db, id, favorite))

DeleteChannelsBySource ==
    \E s \in RowIds :
        Call("delete_channels_by_source", <<s>>, delete_channels_by_source(Db, s))

DeleteSource ==
    \E id \in RowIds :
        Call("delete_source", <<id>>, delete_source(Db, id))

DeleteGroupsBySource ==
    \E s \in RowIds :
        Call("delete_groups_by_source", <<s>>, delete_groups_by_source(Db, s))

DeleteCustomGroup ==
    \E id \in RowIds, new_id \in {None} \cup {Some(i) : i \in RowIds},
       do_channels_update \in BOOLEAN :
        Call("delete_custom_group", <<id, new_id, do_channels_update>>,
             delete_custom_group(Db, id, new_id, do_channels_update))

\* delete_source and an import transaction side by side.  SQLite admits one
\* writer: a transaction holds the write lock from its first write to its
\* commit or rollback, and what it wrote is in the file only once it
\* commits; a statement on a plain connection is a transaction of its own.
\* pc: 0 not called, 1..3 the statement to run next, 4 returned.
NoDelete == [id |-> 0, pc |-> 0, ok |-> FALSE, overlap |-> FALSE]
NoImport == [status |-> "none", written |-> FALSE, db |-> EmptyDb, left |-> <<>>]

WriterStep(db, del, imp, call) ==
    /\ WithinBounds(db)
    /\ sources' = db.sources
    /\ channels' = db.channels
    /\ groups' = db.groups
    /\ channel_http_headers' = db.channel_http_headers
    /\ settings' = db.settings
    /\ deleting' = del
    /\ importing' = imp
    /\ last' = call
    /\ UNCHANGED <<buildVars, schemaVars, poolVars, group_cache, prepared, epgVars>>

\* sql.rs 492-493: delete_source(id) is called and takes its connection.
BeginDeleteSourceOf(ids) ==
    \E id \in ids :
        /\ deleting.pc = 0
        /\ WriterStep(Db, [id |-> id, pc |-> 1, ok |-> FALSE,
                           overlap |-> importing.status = "open"],
                      importing, last)

\* sql.rs 494-518: the next statement of delete_source, when no transaction
\* holds the write lock; the call returns after the third, or with the error
\* of the statement that fails.
DeleteSourceStep ==
    /\ deleting.pc \in 1..3
    /\ ~importing.written
    /\ LET st == delete_source_statement(Db, deleting.id, deleting.pc)
           failed == ~st.ok \/ (deleting.pc = 3 /\ st.changes # 1)
           returns == failed \/ deleting.pc = 3
           call == [op |-> "delete_source", args |-> <<deleting.id>>, ok |-> ~failed,
                    ret |-> IF failed THEN None ELSE Unit, pre |-> Db]
       IN  WriterStep(st.db,
                      [deleting EXCEPT !.pc = IF returns THEN 4 ELSE @ + 1,
                                       !.ok = returns /\ ~failed],
                      importing, IF returns THEN call ELSE last)

\* The statement waits for the write lock until the busy timeout, and then
\* fails with SQLITE_BUSY.
DeleteSourceBusy ==
    /\ deleting.pc \in 1..3
    /\ importing.written
    /\ WriterStep(Db, [deleting EXCEPT !.pc = 4, !.ok = FALSE], importing,
                  [op |-> "delete_source", args |-> <<deleting.id>>, ok |-> FALSE,
                   ret |-> None, pre |-> Db])

\* sql.rs 956-957: do_tx opens the transaction of an import; items are the
\* inserts its closure makes.
BeginImportOf(closures) ==
    \E items \in closures :
        /\ importing.status = "none"
        /\ WriterStep(Db, [deleting EXCEPT !.overlap = @ \/ deleting.pc \in 1..3],
                      [status |-> "open", written |-> FALSE, db |-> EmptyDb,
                       left |-> items],
                      last)

\* sql.rs 958: the next insert of the closure, on what the transaction sees;
\* an insert that fails ends the closure, and the transaction is rolled back.
ImportStep ==
    /\ importing.status = "open"
    /\ importing.left # <<>>
    /\ LET seen == IF importing.written THEN importing.db ELSE Db
           item == Head(importing.left)
           r == IF item.kind = "group"
                THEN insert_group(seen, item.name, None, item.source_id)
                ELSE insert_channel(seen, item.channel)
       IN  /\ WithinBounds(r.db)
           /\ WriterStep(Db, deleting,
                         IF r.ok
                         THEN [status |-> "open", written |-> TRUE, db |-> r.db,
                               left |-> Tail(importing.left)]
                         ELSE [status |-> "failed", written |-> FALSE, db |-> EmptyDb,
                               left |-> <<>>],
                         last)

\* sql.rs 959: the commit puts the writes of the transaction in the file.
ImportCommit ==
    /\ importing.status = "open"
    /\ importing.left = <<>>
    /\ WriterStep(IF importing.written THEN importing.db ELSE Db, deleting,
                  [status |-> "committed", written |-> FALSE, db |-> EmptyDb,
                   left |-> <<>>],
                  last)

\* A call that touches the pool only.
PoolCall(op, args, ok, h) ==
    /\ held' = h
    /\ last' = [op |-> op, args |-> args, ok |-> ok, ret |-> None, pre |-> Db]
    /\ UNCHANGED <<buildVars, tableVars, settings, schemaVars, idle_in_tx,
                   group_cache, prepared, writerVars, epgVars>>

\* args: the caller, and the connections held before the call.
GetConn ==
    \E c \in Callers :
        LET r == get_conn(held, c)
        IN  PoolCall("get_conn", <<c, held>>, r.ok, r.held)

DropConn ==
    \E c \in Callers :
        /\ held[c] > 0
        /\ PoolCall("drop_conn", <<c, held>>, TRUE, drop_conn(held, c))

\* A new import batch starts with an empty cache.
StartBatch ==
    /\ group_cache # EmptyMap
    /\ group_cache' = EmptyMap
    /\ last' = [op |-> "start_batch", args |-> <<>>, ok |-> TRUE, ret |-> None,
                pre |-> Db]
    /\ UNCHANGED <<buildVars, tableVars, settings, schemaVars, poolVars, prepared,
                   writerVars, epgVars>>

\* args: the cache before the call, the channel, the source id.
SetChannelGroupIdFor(inputs, source_ids) ==
    \E channel \in inputs, source_id \in source_ids :
        LET r == set_channel_group_id(Db, group_cache, channel, source_id)
            t == do_tx(Db, r)
        IN  /\ WithinBounds(t.db)
            /\ sources' = t.db.sources
            /\ channels' = t.db.channels
            /\ groups' = t.db.groups
            /\ channel_http_headers' = t.db.channel_http_headers
            /\ settings' = t.db.settings
            /\ group_cache' = r.ret.groups
            /\ last' = [op |-> "set_channel_group_id",
                        args |-> <<group_cache, channel, source_id>>,
                        ok |-> r.ok, ret |-> r.ret, pre |-> Db]
            /\ UNCHANGED <<buildVars, schemaVars, poolVars, prepared,
                           writerVars, epgVars>>

SetChannelGroupIdOf(inputs) == SetChannelGroupIdFor(inputs, {1, 2})

DoTxOf(closures) ==
    \E closure \in closures :
        LET r == RunClosure(Db, closure)
            t == do_tx(Db, r)
            conn == do_tx_conn(r)
        IN  /\ WithinBounds(t.db)
            /\ sources' = t.db.sources
            /\ channels' = t.db.channels
            /\ groups' = t.db.groups
            /\ channel_http_headers' = t.db.channel_http_headers
            /\ settings' = t.db.settings
            /\ idle_in_tx' = idle_in_tx + (IF conn.in_tx THEN 1 ELSE 0)
            /\ last' = [op |-> "do_tx", args |-> <<closure>>, ok |-> t.ok,
                        ret |-> t.ret, pre |-> Db]
            /\ UNCHANGED <<buildVars, schemaVars, held, group_cache, prepared,
                           writerVars, epgVars>>

UpdateSettingsOf(maps) ==
    \E map \in maps :
        Call("update_settings", <<map>>, update_settings(Db, map))

GetSettings == Call("get_settings", <<>>, get_settings(Db))

\* A call that only reads.
Read(op, args, r) ==
    /\ last' = [op |-> op, args |-> args, ok |-> r.ok, ret |-> r, pre |-> Db]
    /\ UNCHANGED <<buildVars, tableVars, settings, schemaVars, poolVars,
                   group_cache, prepared, writerVars, epgVars>>

\* search leaves the statement it prepared, if it came to prepare one.
SearchOf(filters) ==
    \E f \in filters :
        LET r == search(Db, f)
        IN  /\ last' = [op |-> "search", args |-> <<f>>, ok |-> r.ok, ret |-> r,
                        pre |-> Db]
            /\ prepared' = IF r.status = "Ok" THEN search_statement(f) ELSE prepared
            /\ UNCHANGED <<buildVars, tableVars, settings, schemaVars, poolVars,
                           group_cache, writerVars, epgVars>>

\* args: the channel, and the rowid the connection's last INSERT left.
AddCustomChannelOf(datas, headers) ==
    \E d \in datas, h \in headers, stale \in 0..MaxRowId :
        LET channel == [data |-> d, headers |-> h]
        IN  /\ stale # 0 => ChannelConflicts(Db, d.name, d.url, d.source_id) # {}
            /\ Call("add_custom_channel", <<channel, stale>>,
                    do_tx(Db, add_custom_channel(Db, channel, stale)))

EditCustomChannelOf(datas, headers) ==
    \E id \in {c.id : c \in channels} \cup {NextRowId(channels)},
       d \in datas, h \in headers, fault \in 0..3 :
        LET channel == [data |-> [d EXCEPT !.id = Some(id)], headers |-> h]
        IN  Call("edit_custom_channel", <<channel, fault>>,
                 edit_custom_channel(Db, channel, fault))

(* ------------------------------------------------------------------ *)
(* Scheduled notifications (epg.rs)                                    *)
(* ------------------------------------------------------------------ *)

\* The entries that can be scheduled: an id and a start time.  The start
\* times are ones utils::get_local_time converts.
Entries == {[id |-> "x", start |-> 1], [id |-> "y", start |-> 2]}

\* epg.rs 53-57.
is_timestamp_over(timestamp, time) == time >= timestamp

\* The entries of a set in the order of the stored list (by start time).
RECURSIVE EntriesInOrder(_)
EntriesInOrder(set) ==
    IF set = {} THEN <<>>
    ELSE LET e == CHOOSE x \in set : \A y \in set : x.start <= y.start
         IN  <<e>> \o EntriesInOrder(set \ {e})

\* Mutant: the loop runs while the flag is not set.
poll_continues_UntilSet(stop, to_watch) == ~stop /\ to_watch # {}

\* epg.rs 21: the condition of the loop of poll.
poll_continues(stop, to_watch) == stop /\ to_watch # {}

\* epg.rs 22-39: one pass of retain at the local time: the entries that stay
\* and the notifications shown, in list order.
poll_pass(p, to_watch, time) ==
    LET due == {e \in to_watch : is_timestamp_over(e.start, time)}
        shown == EntriesInOrder(due)
    IN  [to_watch |-> to_watch \ due,
         shown |-> [i \in 1..Len(shown) |->
                       [poller |-> p, entry |-> shown[i].id, time |-> time]]]

\* sql::clean_epgs, sql::add_epg, sql::remove_epg and sql::get_epgs on the
\* stored entries: the entries whose start has passed are removed, then the
\* entry is added or the entry of the id removed.
clean_epgs(stored, time) == {e \in stored : ~is_timestamp_over(e.start, time)}
sql_add_epg(stored, epg) == stored \cup {epg}
sql_remove_epg(stored, epg_id) == {e \in stored : e.id # epg_id}

NoEpgCall == [op |-> "none", arg |-> None, joined |-> 0, pending |-> {}, at |-> 0]

Poller(list) == [list |-> list, to_watch |-> list, running |-> TRUE, signalled |-> FALSE]

\* epg.rs 59-67 and 79-87: the call takes the state lock; when a poller is
\* kept in thread_handle it sets notify_stop, takes the handle and joins.
\* pending: the entries of that poller not yet shown whose start has not
\* passed.
BeginEpgCall(op, arg) ==
    /\ epg_call.op = "none"
    /\ Len(pollers) < MaxPollers
    /\ IF thread_handle # None
       THEN LET p == Unwrap(thread_handle)
            IN  /\ notify_stop' = TRUE
                /\ thread_handle' = None
                /\ pollers' = [pollers EXCEPT ![p].signalled = pollers[p].running]
                /\ epg_call' = [op |-> op, arg |-> arg, joined |-> p,
                                pending |-> IF pollers[p].running
                                            THEN {e \in pollers[p].to_watch :
                                                     ~is_timestamp_over(e.start, now)}
                                            ELSE {},
                                at |-> now]
       ELSE /\ epg_call' = [op |-> op, arg |-> arg, joined |-> 0, pending |-> {},
                            at |-> now]
            /\ UNCHANGED <<notify_stop, thread_handle, pollers>>
    /\ UNCHANGED <<buildVars, tableVars, settings, schemaVars, poolVars, group_cache,
                   prepared, writerVars, now, notified, epgs, last>>

BeginAddEpg == \E e \in Entries : BeginEpgCall("add_epg", e)
BeginRemoveEpg == \E id \in {e.id : e \in Entries} : BeginEpgCall("remove_epg", id)

\* epg.rs 64-75 and 84-98: once the joined poller has exited, the stored
\* entries are cleaned and changed, a poller is spawned on the list (remove_epg
\* spawns none on an empty list) and the call returns, releasing the lock.
ReturnEpgCall ==
    /\ epg_call.op # "none"
    /\ epg_call.joined # 0 => ~pollers[epg_call.joined].running
    /\ LET cleaned == clean_epgs(epgs, now)
           list == IF epg_call.op = "add_epg" THEN sql_add_epg(cleaned, epg_call.arg)
                   ELSE sql_remove_epg(cleaned, epg_call.arg)
           spawns == epg_call.op = "add_epg" \/ list # {}
       IN  /\ epgs' = list
           /\ pollers' = IF spawns THEN Append(pollers, Poller(list)) ELSE pollers
           /\ thread_handle' = IF spawns THEN Some(Len(pollers) + 1) ELSE thread_handle
           /\ last' = [op |-> epg_call.op,
                       args |-> <<epg_call.arg, epg_call.joined, epg_call.pending,
                                  epg_call.at>>,
                       ok |-> TRUE, ret |-> now, pre |-> Db]
    /\ epg_call' = NoEpgCall
    /\ UNCHANGED <<buildVars, tableVars, settings, schemaVars, poolVars, group_cache,
                   prepared, writerVars, notify_stop, now, notified>>

\* epg.rs 21-40: a poller evaluates the condition of its loop, and then
\* either makes one pass over its list or returns.
PollerStep ==
    \E p \in 1..Len(pollers) :
        /\ pollers[p].running
        /\ IF poll_continues(notify_stop, pollers[p].to_watch)
           THEN LET pass == poll_pass(p, pollers[p].to_watch, now)
                IN  /\ pollers' = [pollers EXCEPT ![p].to_watch = pass.to_watch]
                    /\ notified' = notified \o pass.shown
           ELSE /\ pollers' = [pollers EXCEPT ![p].running = FALSE]
                /\ notified' = notified
        /\ UNCHANGED <<buildVars, tableVars, settings, schemaVars, poolVars,
                       group_cache, prepared, writerVars, notify_stop, thread_handle,
                       now, epgs, epg_call, last>>

\* The local time advances.
Tick ==
    /\ now < MaxTime
    /\ now' = now + 1
    /\ UNCHANGED <<buildVars, tableVars, settings, schemaVars, poolVars, group_cache,
                   prepared, writerVars, notify_stop, thread_handle, pollers, notified,
                   epgs, epg_call, last>>

(* ------------------------------------------------------------------ *)
(* Specifications                                                      *)
(* ------------------------------------------------------------------ *)

\* The rest of the state once create_or_initialize_db has run: the schema is
\* the current one, no connection is held, no batch, search, delete_source or
\* import is under way, and no entry has been scheduled.
InitAux ==
    /\ schema = CurrentSchema
    /\ user_version = Len(MigrationBatches)
    /\ held = [c \in Callers |-> 0]
    /\ idle_in_tx = 0
    /\ group_cache = EmptyMap
    /\ prepared = NoStatement
    /\ deleting = NoDelete
    /\ importing = NoImport
    /\ notify_stop = FALSE
    /\ thread_handle = None
    /\ pollers = <<>>
    /\ now = 0
    /\ notified = <<>>
    /\ epgs = {}
    /\ epg_call = NoEpgCall

\* A database created by create_or_initialize_db, with no rows yet.  Whether
\* FOREIGN KEY clauses are enforced is a property of the SQLite build behind
\* the pool (sql.rs never sets the pragma), so both are possible.
Init ==
    /\ foreign_keys \in BOOLEAN
    /\ overflow_checks = FALSE
    /\ sources = {}
    /\ channels = {}
    /\ groups = {}
    /\ channel_http_headers = {}
    /\ settings = EmptyMap
    /\ InitAux
    /\ last = NoCall

\* Spec: import of channels into two sources, favorites, source-scoped refresh.
RefreshChannels ==
    {Channel(n, Some(<<"u">>), Some(s), None, FALSE) :
        n \in {<<"a">>, <<"b">>}, s \in {1, 2}}

InsertChannel == InsertChannelOf(RefreshChannels)

Next ==
    \/ CreateOrFindSource
    \/ InsertChannel
    \/ FavoriteChannel
    \/ DeleteChannelsBySource

Spec == Init /\ [][Next]_vars

\* SpecDelete: sources with their channels and groups, and source deletion.
DeleteChannels ==
    {Channel(<<"a">>, Some(<<"u">>), Some(s), None, f) : s \in {1, 2}, f \in BOOLEAN}

DeleteGroups == {[name |-> <<"g">>, source_id |-> Some(s)] : s \in {1, 2}}

InsertSourceChannel == InsertChannelOf(DeleteChannels)
AddCustomGroup == AddCustomGroupOf(DeleteGroups)

NextDelete ==
    \/ CreateOrFindSource
    \/ InsertSourceChannel
    \/ AddCustomGroup
    \/ DeleteSource

SpecDelete == Init /\ [][NextDelete]_vars

\* SpecImport: repeated import of the same playlist entries, with favorites
\* set in between.
ImportChannels ==
    {Channel(<<"a">>, url, source_id, group_id, FALSE) :
        url \in {None, Some(<<"u">>)}, source_id \in {None, Some(1)},
        group_id \in {None, Some(1)}}

InsertImportedChannel == InsertChannelOf(ImportChannels)

NextImport ==
    \/ CreateOrFindSource
    \/ InsertImportedChannel
    \/ FavoriteChannel

SpecImport == Init /\ [][NextImport]_vars

\* SpecEdit: custom channels of one custom source and their edits.
CustomChannels == {Channel(<<"a">>, Some(<<"u">>), Some(1), None, FALSE)}

\* The data of an edit: the two values differ in every column the UPDATE sets.
EditDatas ==
    {[id |-> None, name |-> <<"a">>, image |-> None, url |-> Some(<<"u">>),
      media_type |-> 0, group_id |-> None],
     [id |-> None, name |-> <<"b">>, image |-> Some(<<"i">>), url |-> Some(<<"v">>),
      media_type |-> 1, group_id |-> Some(1)]}

Headers(referrer, user_agent, http_origin, ignore_ssl) ==
    [channel_id |-> None, referrer |-> referrer, user_agent |-> user_agent,
     http_origin |-> http_origin, ignore_ssl |-> ignore_ssl]

EditHeaders == {None, Some(Headers(Some(<<"r">>), None, None, Some(1)))}

CreateCustomSource ==
    Call("create_or_find_source_by_name", <<(<<"c">>)>>,
         do_tx(Db, create_or_find_source_by_name(Db, [name |-> <<"c">>])))

InsertCustomChannel == InsertChannelOf(CustomChannels)
AddEditGroup == AddCustomGroupOf({[name |-> <<"g">>, source_id |-> Some(1)]})
EditCustomChannel == EditCustomChannelOf(EditDatas, EditHeaders)

NextEdit ==
    \/ CreateCustomSource
    \/ InsertCustomChannel
    \/ AddEditGroup
    \/ EditCustomChannel

SpecEdit == Init /\ [][NextEdit]_vars

\* SpecCustom: custom channels added and edited with and without headers.
NoHeaders == Headers(None, None, None, None)

AddedHeaders ==
    {None, Some(NoHeaders), Some(Headers(Some(<<"r">>), None, None, None)),
     Some(Headers(None, None, None, Some(1)))}

AddedChannels == {Channel(<<"a">>, Some(<<"u">>), Some(1), None, FALSE)}

AddCustomChannel == AddCustomChannelOf(AddedChannels, AddedHeaders)
EditCustomHeaders == EditCustomChannelOf({CHOOSE d \in EditDatas : d.name = <<"a">>},
                                         {None, Some(NoHeaders)})

NextCustom ==
    \/ CreateCustomSource
    \/ AddCustomChannel
    \/ EditCustomHeaders

SpecCustom == Init /\ [][NextCustom]_vars

\* SpecHeaders: the header rows of two custom channels under edits that set,
\* replace and remove them.
HeaderChannels ==
    {Channel(<<"a">>, Some(<<"u">>), Some(1), None, FALSE),
     Channel(<<"b">>, Some(<<"v">>), Some(1), None, FALSE)}

ReplacedHeaders ==
    {None,
     Some(Headers(Some(<<"r">>), None, Some(<<"o">>), Some(1))),
     Some(Headers(None, Some(<<"a">>), None, Some(0)))}

InsertHeaderChannel == InsertChannelOf(HeaderChannels)
EditChannelHeaders ==
    EditCustomChannelOf({CHOOSE d \in EditDatas : d.name = <<"a">>}, ReplacedHeaders)

NextHeaders ==
    \/ CreateCustomSource
    \/ InsertHeaderChannel
    \/ EditChannelHeaders

SpecHeaders == Init /\ [][NextHeaders]_vars

\* SpecSettings: the settings table under update_settings and get_settings.
SettingKeys == {"a", "b", "c"}
SettingValues == {"1", "2"}
SettingMaps == UNION {[K -> SettingValues] : K \in SUBSET SettingKeys}

UpdateSettings == UpdateSettingsOf(SettingMaps)

NextSettings ==
    \/ UpdateSettings
    \/ GetSettings

SpecSettings == Init /\ [][NextSettings]_vars

\* SpecGroups: groups of two sources, channels in and out of groups, favorites,
\* and the source-scoped removal of groups.
GroupedChannels ==
    {Channel(n, Some(<<"u">>), Some(1), g, FALSE) :
        n \in {<<"a">>, <<"b">>}, g \in {None, Some(1), Some(2)}}

InsertGroupedChannel == InsertChannelOf(GroupedChannels)

NextGroups ==
    \/ CreateOrFindSource
    \/ AddCustomGroup
    \/ InsertGroupedChannel
    \/ FavoriteChannel
    \/ DeleteGroupsBySource

SpecGroups == Init /\ [][NextGroups]_vars

\* SpecCustomGroups: groups, channels in and out of them, and the removal of
\* a group with and without the update of its channels.
NextCustomGroups ==
    \/ CreateOrFindSource
    \/ AddCustomGroup
    \/ InsertGroupedChannel
    \/ DeleteCustomGroup

SpecCustomGroups == Init /\ [][NextCustomGroups]_vars

\* SpecBatch: import batches that set the group of their channels, over the
\* groups that earlier batches left in the store.
BatchChannels ==
    {[name |-> <<"a">>, group |-> g, group_id |-> None, image |-> None] :
        g \in {None, Some(<<"g">>), Some(<<"h">>)}}

SetChannelGroupId == SetChannelGroupIdOf(BatchChannels)

NextBatch ==
    \/ CreateOrFindSource
    \/ StartBatch
    \/ SetChannelGroupId

SpecBatch == Init /\ [][NextBatch]_vars

\* SpecOneBatch: one import batch of source 1, with one cache, into a store
\* that holds no group of source 1 yet; an earlier import of source 2 may have
\* left groups of the same names.
OneBatchChannels ==
    {[name |-> n, group |-> g, group_id |-> None, image |-> None] :
        n \in {<<"a">>, <<"b">>}, g \in {None, Some(<<"g">>), Some(<<"h">>)}}

InitOneBatch ==
    /\ foreign_keys \in BOOLEAN
    /\ overflow_checks = FALSE
    /\ sources = {[id |-> 1, name |-> <<"s">>], [id |-> 2, name |-> <<"t">>]}
    /\ channels = {}
    /\ groups \in {{},
                   {[id |-> 1, name |-> <<"g">>, source_id |-> Some(2)]},
                   {[id |-> 1, name |-> <<"h">>, source_id |-> Some(2)],
                    [id |-> 2, name |-> <<"g">>, source_id |-> Some(2)]}}
    /\ channel_http_headers = {}
    /\ settings = EmptyMap
    /\ InitAux
    /\ last = NoCall

SetBatchChannelGroupId == SetChannelGroupIdFor(OneBatchChannels, {1})

NextOneBatch == SetBatchChannelGroupId

SpecOneBatch == InitOneBatch /\ [][NextOneBatch]_vars

\* SpecConcurrent: delete_source(1) and one import transaction into source
\* 1, in every interleaving that the write lock admits, over a store that
\* holds the source and may hold a channel and a group of it.
ImportGroup(name) == [kind |-> "group", name |-> name, source_id |-> 1]
ImportChannel(name) ==
    [kind |-> "channel", channel |-> Channel(name, Some(<<"u">>), Some(1), None, FALSE)]

ImportClosures ==
    {<<ImportChannel(<<"a">>)>>,
     <<ImportGroup(<<"g">>), ImportChannel(<<"a">>)>>,
     <<ImportChannel(<<"a">>), ImportChannel(<<"b">>)>>}

InitConcurrent ==
    /\ foreign_keys \in BOOLEAN
    /\ overflow_checks = FALSE
    /\ sources = {[id |-> 1, name |-> <<"s">>]}
    /\ channels \in {{}, {[id |-> 1, name |-> <<"c">>, group_id |-> None,
                           image |-> None, media_type |-> 0, source_id |-> Some(1),
                           url |-> Some(<<"u">>), favorite |-> 0, series_id |-> None]}}
    /\ groups \in {{}, {[id |-> 1, name |-> <<"h">>, source_id |-> Some(1)]}}
    /\ channel_http_headers = {}
    /\ settings = EmptyMap
    /\ InitAux
    /\ last = NoCall

BeginDeleteSource == BeginDeleteSourceOf({1})
BeginImport == BeginImportOf(ImportClosures)

NextConcurrent ==
    \/ BeginDeleteSource
    \/ DeleteSourceStep
    \/ DeleteSourceBusy
    \/ BeginImport
    \/ ImportStep
    \/ ImportCommit

SpecConcurrent == InitConcurrent /\ [][NextConcurrent]_vars

\* SpecEpg: add_epg and remove_epg calls, the pollers they spawn and join,
\* and the local time.  AppState is built outside epg.rs, so notify_stop
\* starts with either value (AtomicBool::default() is false).
InitEpg ==
    /\ foreign_keys = FALSE
    /\ overflow_checks = FALSE
    /\ sources = {}
    /\ channels = {}
    /\ groups = {}
    /\ channel_http_headers = {}
    /\ settings = EmptyMap
    /\ schema = CurrentSchema
    /\ user_version = Len(MigrationBatches)
    /\ held = [c \in Callers |-> 0]
    /\ idle_in_tx = 0
    /\ group_cache = EmptyMap
    /\ prepared = NoStatement
    /\ deleting = NoDelete
    /\ importing = NoImport
    /\ notify_stop \in BOOLEAN
    /\ thread_handle = None
    /\ pollers = <<>>
    /\ now = 0
    /\ notified = <<>>
    /\ epgs = {}
    /\ epg_call = NoEpgCall
    /\ last = NoCall

NextEpg ==
    \/ BeginAddEpg
    \/ BeginRemoveEpg
    \/ ReturnEpgCall
    \/ PollerStep
    \/ Tick

SpecEpg == InitEpg /\ [][NextEpg]_vars

\* SpecTx: closures run by do_tx.
Closures ==
    [source : SourceNames,
     channels : {<<>>, <<(<<"a">>)>>, <<(<<"a">>), (<<"b">>)>>, <<(<<"b">>)>>},
     fails : BOOLEAN]

DoTx == DoTxOf(Closures)

NextTx == DoTx

SpecTx == Init /\ [][NextTx]_vars

\* SpecPool: concurrent callers taking connections from the pool and giving
\* them back.
NextPool ==
    \/ GetConn
    \/ DropConn

SpecPool == Init /\ [][NextPool]_vars

\* SpecStartup: startups and drop_db on a new file and on the file of a
\* release that had the baseline only.  The source rows here carry the two
\* columns the migration reads and writes.
LegacySources ==
    {[id |-> 1, name |-> <<"s">>, source_type |-> 0, use_tvg_id |-> None],
     [id |-> 2, name |-> <<"t">>, source_type |-> 2, use_tvg_id |-> None]}

StructureFaults == 0..Len(BaselineBatch)
MigrationFaults == 0..Len(MigrationBatches[1])

InitStartup ==
    /\ foreign_keys \in BOOLEAN
    /\ overflow_checks = FALSE
    /\ \/ /\ schema = {}
          /\ sources = {}
       \/ /\ schema = create_structure({}).schema
          /\ sources \in SUBSET LegacySources
    /\ user_version = 0
    /\ channels = {}
    /\ groups = {}
    /\ channel_http_headers = {}
    /\ settings = EmptyMap
    /\ held = [c \in Callers |-> 0]
    /\ idle_in_tx = 0
    /\ group_cache = EmptyMap
    /\ prepared = NoStatement
    /\ deleting = NoDelete
    /\ importing = NoImport
    /\ notify_stop = FALSE
    /\ thread_handle = None
    /\ pollers = <<>>
    /\ now = 0
    /\ notified = <<>>
    /\ epgs = {}
    /\ epg_call = NoEpgCall
    /\ last = NoCall

StartupCall(op, args, ok, ret, sch, version, db) ==
    /\ schema' = sch
    /\ user_version' = version
    /\ sources' = db.sources
    /\ channels' = db.channels
    /\ groups' = db.groups
    /\ channel_http_headers' = db.channel_http_headers
    /\ settings' = db.settings
    /\ last' = [op |-> op, args |-> args, ok |-> ok, ret |-> ret, pre |-> Db]
    /\ UNCHANGED <<buildVars, poolVars, group_cache, prepared,
                   writerVars, epgVars>>

\* sql.rs 121-127 on the file: structure is the statement of create_structure
\* that the engine fails, migration the statement of the migration, 0 for none.
CreateOrInitializeDb ==
    \E structure \in StructureFaults, migration \in MigrationFaults :
        LET existed == structure_exists(schema)
            s1 == IF existed THEN [ok |-> TRUE, schema |-> schema]
                  ELSE ExecBatch(schema, BaselineBatch, structure)
            r == IF s1.ok THEN apply_migrations(s1.schema, user_version, migration)
                 ELSE [ok |-> FALSE, schema |-> s1.schema,
                       user_version |-> user_version, applied |-> <<>>]
        IN  /\ existed => structure = 0
            /\ StartupCall("create_or_initialize_db",
                           <<schema, user_version, structure, migration>>, r.ok,
                           [existed |-> existed, created |-> ~existed /\ s1.ok,
                            applied |-> r.applied],
                           r.schema, r.user_version, MigrateRows(Db, r.applied))

DropDb ==
    LET r == drop_db(schema, Db, foreign_keys)
    IN  StartupCall("drop_db", <<schema>>, r.ok, None, r.schema, user_version, r.db)

StructureExists ==
    /\ last.op # "structure_exists"
    /\ StartupCall("structure_exists", <<schema>>, TRUE, structure_exists(schema),
                   schema, user_version, Db)

NextStartup ==
    \/ CreateOrInitializeDb
    \/ DropDb
    \/ StructureExists

SpecStartup == InitStartup /\ [][NextStartup]_vars

\* SpecSearch: search over stores of up to MaxPages pages of channels and of
\* groups, as an import into two sources leaves them.
StoredChannel(i) ==
    [id |-> i,
     name |-> IF i % 2 = 1 THEN <<"a">> ELSE <<"B", "a">>,
     url |-> IF i % 5 = 0 THEN None ELSE Some(<<"u">> \o I64ToString(i)),
     source_id |-> Some(IF i % 3 = 0 THEN 2 ELSE 1),
     group_id |-> IF i % 2 = 0 THEN Some(1) ELSE None,
     image |-> None,
     media_type |-> IF i % 4 < 2 THEN 0 ELSE 1,
     series_id |-> IF i % 4 = 3 THEN Some(1) ELSE None,
     favorite |-> IF i % 3 = 1 THEN 1 ELSE 0]

StoredGroup(i) ==
    [id |-> i,
     name |-> IF i % 3 = 0 THEN <<"b">> ELSE <<"a", "b">>,
     source_id |-> Some(IF i % 4 = 0 THEN 2 ELSE 1)]

StoreSizes ==
    {k * PAGE_SIZE + d : k \in 0..MaxPages, d \in {0, 1}}

\* The page field is a u8.
SearchPages == (0..(MaxPages + 1)) \cup {7, 8, 9, 255}

SearchFilters ==
    [page : SearchPages,
     query : {None, Some(<<"a">>)},
     media_types : {None, Some(<<0>>), Some(<<0, 1>>)},
     source_ids : {<<>>, <<1>>, <<1, 2>>},
     view_type : {view_type_ALL, view_type_CATEGORIES, view_type_FAVORITES},
     group_id : {None, Some(1)},
     series_id : {None, Some(1)}]

InitSearch ==
    /\ foreign_keys = FALSE
    /\ overflow_checks \in BOOLEAN
    /\ \E n \in StoreSizes :
          /\ channels = {StoredChannel(i) : i \in 1..n}
          /\ groups = {StoredGroup(i) : i \in 1..n}
    /\ sources = {[id |-> 1, name |-> <<"s">>], [id |-> 2, name |-> <<"t">>]}
    /\ channel_http_headers = {}
    /\ settings = EmptyMap
    /\ InitAux
    /\ last = NoCall

\* search only reads: a second call from the state it leaves is the same call
\* on the same store, so a behaviour makes one.
Search == last.op = NoCall.op /\ SearchOf(SearchFilters)

NextSearch == Search

SpecSearch == InitSearch /\ [][NextSearch]_vars

(* ------------------------------------------------------------------ *)
(* Claims                                                              *)
(* ------------------------------------------------------------------ *)

\* C1 (Spec): delete_channels_by_source(s) removes exactly the channels with
\* source_id = s and favorite = false; every favorite of s and every channel
\* of another source is still stored, unchanged.
C1_RefreshRemovesExactlyNonFavorites ==
    last.op = "delete_channels_by_source" =>
        LET s == last.args[1]
        IN  /\ last.ok
            /\ channels = {c \in last.pre.channels :
                              ~(c.source_id = Some(s) /\ c.favorite = 0)}

\* A refresh of a source holding a favorite A and a non-favorite B, with a
\* channel of another source stored: B is gone, A and the other remain.
C1_Witness ==
    /\ last.op = "delete_channels_by_source"
    /\ \E a, b, o \in last.pre.channels :
          /\ a.source_id = Some(last.args[1]) /\ a.favorite = 1
          /\ b.source_id = Some(last.args[1]) /\ b.favorite = 0
          /\ o.source_id # Some(last.args[1])
          /\ a \in channels /\ o \in channels /\ b \notin channels

\* C2 (SpecImport): insert_channel of a channel whose (name, url, source_id)
\* equals that of a stored channel returns Ok and leaves the channels table
\* as it was, so that repeating the insert changes nothing.
C2_DuplicateInsertIsIgnored ==
    LET c == last.args[1]
    IN  (/\ last.op = "insert_channel"
         /\ \E r \in last.pre.channels :
               r.name = c.name /\ r.url = c.url /\ r.source_id = c.source_id) =>
            /\ last.ok
            /\ channels = last.pre.channels

\* C3 (SpecDelete): create_or_find_source_by_name with a stored name returns
\* the id of that row and inserts nothing; with a new name it inserts one row
\* and returns its id; no two source rows ever share a name.
C3_SourceUpsertByName ==
    /\ \A s1, s2 \in sources : s1.name = s2.name => s1 = s2
    /\ last.op = "create_or_find_source_by_name" =>
          LET name == last.args[1]
              existing == {s \in last.pre.sources : s.name = name}
          IN  /\ last.ok
              /\ existing # {} =>
                    /\ sources = last.pre.sources
                    /\ \E s \in existing : last.ret = s.id
              /\ existing = {} =>
                    /\ \A s \in last.pre.sources : s.id # last.ret
                    /\ sources = last.pre.sources \cup {[id |-> last.ret, name |-> name]}

\* The second of two names is looked up again while both rows are stored.
C3_Witness ==
    /\ last.op = "create_or_find_source_by_name"
    /\ Cardinality(sources) = 2
    /\ \E s \in last.pre.sources :
          s.name = last.args[1] /\ last.ret = s.id /\ s.id = Max({t.id : t \in sources})

\* C4 (SpecDelete): after delete_source(id) returned Ok no source row has that
\* id, no channel (favorite or not) and no group has source_id = id, and the
\* rows of every other source are as before.
C4_DeleteSourceCascades ==
    (last.op = "delete_source" /\ last.ok) =>
        LET id == last.args[1]
        IN  /\ sources = {s \in last.pre.sources : s.id # id}
            /\ channels = {c \in last.pre.channels : c.source_id # Some(id)}
            /\ groups = {g \in last.pre.groups : g.source_id # Some(id)}
            /\ \E s \in last.pre.sources : s.id = id

\* A source with a favorite channel and a group is deleted while another
\* source holds a channel.
C4_Witness ==
    /\ last.op = "delete_source" /\ last.ok
    /\ \E c \in last.pre.channels : c.source_id = Some(last.args[1]) /\ c.favorite = 1
    /\ \E g \in last.pre.groups : g.source_id = Some(last.args[1])
    /\ \E c \in channels : IsSome(c.source_id)
    /\ sources # {}

\* C5 (SpecDelete): delete_source(id) with no source row of that id returns
\* an error and leaves the stored channels and groups as they were.
C5_FailedDeleteRemovesNothing ==
    (last.op = "delete_source" /\ ~\E s \in last.pre.sources : s.id = last.args[1]) =>
        /\ ~last.ok
        /\ channels = last.pre.channels
        /\ groups = last.pre.groups

\* C6 (SpecEdit): when a statement of edit_custom_channel fails, the call
\* returns an error; and whenever the call returns an error the channel rows
\* and header rows are what they were before the call.
C6_FailedEditChangesNothing ==
    last.op = "edit_custom_channel" =>
        /\ last.args[2] # 0 => ~last.ok
        /\ ~last.ok =>
              /\ channels = last.pre.channels
              /\ channel_http_headers = last.pre.channel_http_headers

\* The header statement fails after the UPDATE changed the row of a stored
\* channel that has a header row.
C6_Witness ==
    /\ last.op = "edit_custom_channel" /\ ~last.ok
    /\ last.args[2] = 2
    /\ \E c \in last.pre.channels :
          /\ Some(c.id) = last.args[1].data.id
          /\ c.name # last.args[1].data.name
          /\ c.image # last.args[1].data.image
          /\ ExecUpdateChannel(last.pre, last.args[1].data).ok
          /\ \E h \in last.pre.channel_http_headers : h.channel_id = Some(c.id)
          /\ c \in channels

\* C7 (SpecSettings): update_settings(m) always succeeds and merges: every
\* key of m maps to m's value, every other stored key keeps its value, no key
\* is removed; get_settings returns the stored map.
C7_UpdateSettingsMerges ==
    /\ last.op = "update_settings" =>
          LET m == last.args[1]
              before == last.pre.settings
          IN  /\ last.ok
              /\ DOMAIN settings = DOMAIN before \cup DOMAIN m
              /\ \A k \in DOMAIN m : settings[k] = m[k]
              /\ \A k \in DOMAIN before \ DOMAIN m : settings[k] = before[k]
    /\ last.op = "get_settings" => last.ok /\ last.ret = settings

\* update_settings({a:1}) then update_settings({b:2}): get_settings holds
\* both a and b.
C7_Witness ==
    /\ last.op = "update_settings"
    /\ last.pre.settings = ("a" :> "1")
    /\ last.args[1] = ("b" :> "2")
    /\ get_settings(Db).ret = ("a" :> "1") @@ ("b" :> "2")

\* C8: search takes the group-browse shape exactly when the view is
\* CATEGORIES and neither a group scope nor a series scope is set. In that
\* shape the outcome is the same whatever media_types holds (absent included)
\* and every entry is a row of groups with the GROUP media kind and no url. In
\* every other case the channel shape is taken and every entry is a row of
\* channels, returned with its url, which is not null.
C8_GroupBrowseDecision ==
    last.op = "search" =>
        LET f == last.args[1]
            r == last.ret
            categories == /\ f.view_type = view_type_CATEGORIES
                          /\ f.group_id = None
                          /\ f.series_id = None
        IN  /\ r.shape = "groups" <=> categories
            /\ r.shape = "channels" <=> ~categories
            /\ categories =>
                  /\ \A m \in {None, Some(<<0>>), Some(<<0, 1>>)} :
                        search(Db, [f EXCEPT !.media_types = m]) = r
                  /\ \A i \in 1..Len(r.rows) :
                        /\ r.rows[i].media_type = media_type_GROUP
                        /\ r.rows[i].url = None
                        /\ \E g \in groups :
                              /\ g.id = r.rows[i].id
                              /\ g.name = r.rows[i].name
                              /\ g.source_id = r.rows[i].source_id
            /\ ~categories =>
                  \A i \in 1..Len(r.rows) :
                        /\ r.rows[i].url # None
                        /\ r.rows[i].media_type # media_type_GROUP
                        /\ \E c \in channels :
                              /\ c.id = r.rows[i].id
                              /\ c.name = r.rows[i].name
                              /\ c.url = r.rows[i].url

\* A group browse without media_types that found groups.
C8_Witness ==
    /\ last.op = "search"
    /\ last.args[1].view_type = view_type_CATEGORIES
    /\ last.args[1].media_types = None
    /\ last.ret.shape = "groups"
    /\ last.ret.status = "Ok"
    /\ Len(last.ret.rows) > 0

\* C9: a channel search for page p >= 1 (with the media kinds it needs:
\* media_types present or a series scope set) returns Ok with the rows at
\* positions [(p-1)*36, p*36) of the matching rows in scan order: nothing when
\* the page lies past the end, and nothing the next page also returns.
C9_ChannelPagination ==
    (/\ last.op = "search"
     /\ last.ret.shape = "channels"
     /\ last.args[1].page >= 1
     /\ IsSome(last.args[1].media_types) \/ IsSome(last.args[1].series_id)) =>
        LET f == last.args[1]
            r == last.ret
            media == IF IsSome(f.series_id) THEN <<1>> ELSE Unwrap(f.media_types)
            matching == RowsInOrder(ChannelMatches(Db, f, media))
            first == (f.page - 1) * 36
            count == IF Len(matching) <= first THEN 0
                     ELSE IF Len(matching) - first < 36 THEN Len(matching) - first
                     ELSE 36
        IN  /\ r.status = "Ok"
            /\ Len(r.rows) = count
            /\ \A i \in 1..count : r.rows[i] = row_to_channel(matching[first + i])
            /\ first >= Len(matching) => r.rows = <<>>
            /\ f.page < 255 =>
                  LET after == search(Db, [f EXCEPT !.page = f.page + 1]).rows
                  IN  \A i \in 1..Len(r.rows) : \A j \in 1..Len(after) :
                          r.rows[i].id # after[j].id

\* A second page that is the last, partly filled one.
C9_Witness ==
    /\ last.op = "search"
    /\ last.ret.shape = "channels"
    /\ last.ret.status = "Ok"
    /\ last.args[1].page = 2
    /\ Len(last.ret.rows) > 0
    /\ Len(last.ret.rows) < 36

\* C10: search with an empty source_ids returns Ok with an empty list, in
\* both shapes, whatever the other filter fields are.
C10_EmptySourcesFindNothing ==
    (last.op = "search" /\ last.args[1].source_ids = <<>>) =>
        /\ last.ret.status = "Ok"
        /\ last.ret.rows = <<>>

\* C11: search never returns a channel whose stored series_id is not null
\* unless the filters carry that series_id as their series scope.
C11_EpisodesOnlyUnderTheirSeries ==
    (last.op = "search" /\ last.ret.shape = "channels") =>
        \A i \in 1..Len(last.ret.rows) :
            \A c \in channels :
                (c.id = last.ret.rows[i].id /\ IsSome(c.series_id)) =>
                    last.args[1].series_id = c.series_id

\* C20: a channel search that runs its query returns the page of exactly the
\* stored channels with: name matching the pattern (every name without a
\* query); media kind in the allowed set, which under a series scope is the
\* episode kind alone, whatever the caller passed; source_id in source_ids;
\* url not null; favorite set when the view is FAVORITES and no series scope
\* is set; series_id equal to the series scope when there is one, otherwise
\* group_id equal to the group scope when there is one.
C20_ChannelBrowsePredicate ==
    (/\ last.op = "search"
     /\ last.ret.shape = "channels"
     /\ last.ret.status = "Ok"
     /\ last.args[1].page >= 1) =>
        LET f == last.args[1]
            r == last.ret
            pattern == IF f.query = None THEN <<"%">>
                       ELSE <<"%">> \o Unwrap(f.query) \o <<"%">>
            kinds == IF f.series_id # None THEN {1}
                     ELSE {Unwrap(f.media_types)[i] : i \in 1..Len(Unwrap(f.media_types))}
            allowed == {f.source_ids[i] : i \in 1..Len(f.source_ids)}
            wanted == {c \in channels :
                          /\ Like(c.name, pattern)
                          /\ c.media_type \in kinds
                          /\ \E s \in allowed : c.source_id = Some(s)
                          /\ c.url # None
                          /\ (f.view_type = view_type_FAVORITES /\ f.series_id = None)
                                => c.favorite = 1
                          /\ f.series_id # None => c.series_id = f.series_id
                          /\ (f.series_id = None /\ f.group_id # None)
                                => c.group_id = f.group_id}
            ids == {c.id : c \in wanted}
            first == (f.page - 1) * 36
            onPage == {id \in ids :
                          LET rank == Cardinality({j \in ids : j < id})
                          IN  first <= rank /\ rank < first + 36}
        IN  /\ {r.rows[i].id : i \in 1..Len(r.rows)} = onPage
            /\ Len(r.rows) = Cardinality(onPage)
            /\ \A i \in 1..Len(r.rows) :
                  \E c \in wanted : r.rows[i] = row_to_channel(c)

\* A FAVORITES search under a series scope (and a group scope, which adds
\* nothing) with an absent media_types, which finds an episode that is no
\* favorite.
C20_Witness ==
    /\ last.op = "search"
    /\ last.ret.shape = "channels"
    /\ last.ret.status = "Ok"
    /\ last.args[1].view_type = view_type_FAVORITES
    /\ last.args[1].series_id # None
    /\ last.args[1].group_id # None
    /\ last.args[1].media_types = None
    /\ \E i \in 1..Len(last.ret.rows) :
          \E c \in channels :
              /\ c.id = last.ret.rows[i].id
              /\ c.favorite = 0
              /\ c.group_id # last.args[1].group_id

\* C12 (SpecGroups): delete_groups_by_source(s) removes every group with
\* source_id = s that no favorited channel references through group_id,
\* keeps every group that a favorited channel references, and leaves the
\* groups of other sources alone.
C12_DeleteGroupsKeepsFavoritedOnly ==
    last.op = "delete_groups_by_source" =>
        LET s == last.args[1]
            referenced(g) == \E c \in last.pre.channels :
                                c.favorite = 1 /\ c.group_id = Some(g.id)
        IN  /\ last.ok
            /\ groups = {g \in last.pre.groups :
                            g.source_id # Some(s) \/ referenced(g)}

\* C15 (SpecPool): at most 20 pool connections are held at any time; a
\* get_conn made while 20 are held returns an error in that same step and
\* takes nothing; a get_conn made while fewer are held, in particular after a
\* holder released one, gets a connection.
C15_PoolBound ==
    /\ Held(held) <= 20
    /\ last.op = "get_conn" =>
          LET c == last.args[1]
              before == last.args[2]
          IN  /\ Held(before) = 20 => ~last.ok /\ held = before
              /\ Held(before) < 20 =>
                    last.ok /\ held = [before EXCEPT ![c] = @ + 1]
    /\ last.op = "drop_conn" => Held(held) < 20

\* get_conn fails while all 20 connections are held, by two callers or more.
C15_Witness ==
    /\ last.op = "get_conn"
    /\ ~last.ok
    /\ Held(held) = 20
    /\ \E c \in Callers : held[c] > 0 /\ held[c] < 20

\* C13 (SpecBatch): set_channel_group_id for a channel whose group name is
\* not in the batch cache while a group row of that (name, source) is stored
\* returns Ok, sets channel.group_id to the id of that row and records it in
\* the cache.
C13_ExistingGroupIsFound ==
    last.op = "set_channel_group_id" =>
        LET cache == last.args[1]
            channel == last.args[2]
            source_id == last.args[3]
        IN  \A g \in last.pre.groups :
                (/\ channel.group = Some(g.name)
                 /\ g.source_id = Some(source_id)
                 /\ g.name \notin DOMAIN cache) =>
                    /\ last.ok
                    /\ last.ret.channel.group_id = Some(g.id)
                    /\ g.name \in DOMAIN group_cache
                    /\ group_cache[g.name] = g.id

\* C14 (SpecTx): do_tx(f) returns f's value and leaves every write of f in
\* the store when f returns Ok; it returns an error and leaves the store as
\* it was when f returns Err; and it never gives a connection back to the
\* pool with a transaction open.
C14_DoTxCommitsOrRollsBack ==
    /\ idle_in_tx = 0
    /\ last.op = "do_tx" =>
          LET f == RunClosure(last.pre, last.args[1])
          IN  /\ f.ok => last.ok /\ last.ret = f.ret /\ Db = f.db
              /\ ~f.ok => ~last.ok /\ Db = last.pre

\* A closure that inserted a source and two channels and then failed.
C14_Witness ==
    /\ last.op = "do_tx"
    /\ ~last.ok
    /\ LET f == RunClosure(last.pre, last.args[1])
       IN  /\ ~f.ok
           /\ f.db.sources # last.pre.sources
           /\ Cardinality(f.db.channels) = Cardinality(last.pre.channels) + 2

\* C16 (SpecCustom): no stored header row has referrer, user_agent and
\* http_origin all absent and ignore_ssl unset.
C16_NoEmptyHeaderRow ==
    \A h \in channel_http_headers :
        ~(/\ h.referrer = None
          /\ h.user_agent = None
          /\ h.http_origin = None
          /\ h.ignore_ssl = None)

\* C17 (SpecSearch): in the statement a search runs, in either shape, there
\* are as many placeholders as bound parameters, and the i-th parameter is
\* the value of the i-th placeholder's clause: the pattern for name, the media
\* kinds, the source ids, the series or group id, then the offset and the
\* limit; and the text is made of fixed pieces only.
C17_PlaceholdersMatchParameters ==
    (last.op = "search" /\ last.ret.status = "Ok") =>
        LET f == last.args[1]
            text == prepared.text
            params == prepared.params
            marks == {i \in 1..Len(text) : text[i] = "?"}
            clauseAt(i) == Max({j \in 1..(i - 1) : text[j] \notin {"?", ","}})
            ordinal(i) == Cardinality({j \in marks : j <= i /\ clauseAt(j) = clauseAt(i)})
            position(i) == Cardinality({j \in marks : j <= i})
            pattern == IF f.query = None THEN <<"%">>
                       ELSE <<"%">> \o Unwrap(f.query) \o <<"%">>
            kinds == IF f.series_id # None THEN <<1>> ELSE Unwrap(f.media_types)
            offset == IF last.ret.shape = "channels"
                      THEN (f.page * 36 - 36 + 65536) % 65536
                      ELSE (((f.page * 36) % 256) - 36 + 256) % 256
            meant(i) ==
                LET clause == text[clauseAt(i)]
                    k == ordinal(i)
                IN  CASE clause \in {"SELECT * FROM CHANNELS WHERE name LIKE",
                                     "SELECT * FROM groups WHERE name like"} ->
                            <<"text", pattern>>
                      [] clause = "AND media_type IN (" -> <<"integer", kinds[k]>>
                      [] clause \in {"AND source_id IN (", "AND source_id in ("} ->
                            <<"integer", f.source_ids[k]>>
                      [] clause = "AND series_id =" -> <<"integer", Unwrap(f.series_id)>>
                      [] clause = "AND group_id =" -> <<"integer", Unwrap(f.group_id)>>
                      [] clause = "LIMIT" ->
                            <<"integer", IF k = 1 THEN offset ELSE 36>>
                      [] OTHER -> <<"none", 0>>
        IN  /\ Cardinality(marks) = Len(params)
            /\ \A i \in marks : params[position(i)] = meant(i)
            /\ Cardinality(marks) =
                  1 + (IF last.ret.shape = "channels" THEN Len(kinds) ELSE 0)
                    + Len(f.source_ids) + 2
                    + (IF last.ret.shape = "channels" /\
                          (f.series_id # None \/ f.group_id # None) THEN 1 ELSE 0)
            /\ \A i \in 1..Len(text) :
                  text[i] \in {"SELECT * FROM CHANNELS WHERE name LIKE",
                               "SELECT * FROM groups WHERE name like",
                               "AND media_type IN (", "AND source_id IN (",
                               "AND source_id in (", "AND url IS NOT NULL",
                               "AND favorite = 1", "AND series_id =",
                               "AND group_id =", "LIMIT", "?", ",", ")"}

\* A channel search under a series scope with two media kinds passed and two
\* source ids: seven placeholders, of which one media kind.
C17_Witness ==
    /\ last.op = "search"
    /\ last.ret.status = "Ok"
    /\ last.ret.shape = "channels"
    /\ last.args[1].series_id # None
    /\ last.args[1].media_types = Some(<<0, 1>>)
    /\ Len(last.args[1].source_ids) = 2
    /\ Len(prepared.params) = 7

\* C18 (SpecStartup): a create_or_initialize_db that returns Ok has applied
\* exactly the migrations after the recorded version, each once and in
\* order, and recorded the last; on a file whose baseline exists and whose
\* ledger records every migration it returns Ok, applies none and leaves
\* schema and rows as they were; when a statement of a pending migration
\* fails it returns the error, the recorded version stays, and nothing of the
\* migration is left in the schema or the rows.
C18_MigrationsAppliedOnce ==
    last.op = "create_or_initialize_db" =>
        LET before == last.args[1]
            version == last.args[2]
            fault == last.args[4]
            total == 1
            pending == [i \in 1..(total - version) |-> version + i]
        IN  /\ last.ok => /\ last.ret.applied = pending
                          /\ user_version = total
            /\ (last.ret.existed /\ version = total) =>
                  /\ last.ok
                  /\ last.ret.applied = <<>>
                  /\ schema = before
                  /\ Db = last.pre
            /\ (~last.ok) => /\ user_version = version
                             /\ last.ret.applied = <<>>
                             /\ Db = last.pre
                             /\ last.ret.existed => schema = before
            /\ (fault # 0 /\ version < total /\ (last.ret.existed \/ last.ret.created)) =>
                  ~last.ok

\* A startup on the file of the earlier release: the migration applied and
\* recorded, the source of a kind it rewrites now with use_tvg_id = 1.
C18_Witness ==
    /\ last.op = "create_or_initialize_db"
    /\ last.ok
    /\ last.ret.existed
    /\ last.args[2] = 0
    /\ last.ret.applied = <<1>>
    /\ user_version = 1
    /\ \E s \in sources : s.use_tvg_id = Some(1)
    /\ \E s \in last.pre.sources : s.use_tvg_id = None /\ s.source_type = 0

\* C19 (SpecStartup): structure_exists returns false on a file with none of
\* the baseline tables (a new file, or after drop_db) and true on a file
\* where create_structure has created them; a drop_db that returns Ok leaves
\* none of them, a create_structure that returns Ok leaves all of them.
C19_StructureExists ==
    LET baseline == {"sources", "channels", "groups", "settings"}
        tables == {o.name : o \in {o \in schema : o.kind = "table"}}
    IN  /\ last.op = "structure_exists" =>
              /\ (tables \cap baseline = {}) => last.ret = FALSE
              /\ (baseline \subseteq tables) => last.ret = TRUE
        /\ (last.op = "drop_db" /\ last.ok) => tables \cap baseline = {}
        /\ (last.op = "create_or_initialize_db" /\ last.ret.created) =>
              baseline \subseteq tables

\* structure_exists answers false after drop_db on a migrated file: the
\* baseline tables are gone, channel_http_headers is still there.
C19_Witness ==
    /\ last.op = "structure_exists"
    /\ last.ret = FALSE
    /\ \E o \in schema : o.kind = "table" /\ o.name = "channel_http_headers"
    /\ user_version = 1

\* C21 (SpecSearch): a group browse for page p >= 1 returns Ok with the
\* groups at positions [(p-1)*36, p*36) of the matching groups in scan order,
\* at most 36 of them and none when the page lies past the last, for every
\* page the u8 page field can hold.
C21_GroupPagination ==
    (/\ last.op = "search"
     /\ last.ret.shape = "groups"
     /\ last.args[1].page >= 1) =>
        LET f == last.args[1]
            r == last.ret
            matching == RowsInOrder(
                {g \in groups :
                    /\ Like(g.name, to_sql_like(f.query))
                    /\ \E i \in 1..Len(f.source_ids) : g.source_id = Some(f.source_ids[i])})
            first == (f.page - 1) * 36
            count == IF Len(matching) <= first THEN 0
                     ELSE IF Len(matching) - first < 36 THEN Len(matching) - first
                     ELSE 36
        IN  /\ r.status = "Ok"
            /\ Len(r.rows) = count
            /\ \A i \in 1..count : r.rows[i] = row_to_group(matching[first + i])

\* C22 (SpecHeaders): after an edit_custom_channel that returns Ok with a
\* header set, the channel has exactly one header row, with the referrer,
\* user_agent, http_origin and ignore_ssl supplied, whether a row existed
\* before or not; after one that returns Ok without a header set it has no
\* header row; the header rows of other channels are as they were.
C22_EditReplacesHeaders ==
    (last.op = "edit_custom_channel" /\ last.ok) =>
        LET channel == last.args[1]
            id == channel.data.id
            mine == {h \in channel_http_headers : h.channel_id = id}
        IN  /\ channel.headers # None =>
                  /\ Cardinality(mine) = 1
                  /\ \A h \in mine : \A given \in channel.headers :
                        /\ h.referrer = given.referrer
                        /\ h.user_agent = given.user_agent
                        /\ h.http_origin = given.http_origin
                        /\ h.ignore_ssl = given.ignore_ssl
            /\ channel.headers = None => mine = {}
            /\ {h \in channel_http_headers : h.channel_id # id}
                  = {h \in last.pre.channel_http_headers : h.channel_id # id}

\* An edit that replaces the header row of a stored channel by other values
\* while another channel has a header row too.
C22_Witness ==
    /\ last.op = "edit_custom_channel"
    /\ last.ok
    /\ last.args[1].headers # None
    /\ \E c \in channels : Some(c.id) = last.args[1].data.id
    /\ \E h \in last.pre.channel_http_headers :
          /\ h.channel_id = last.args[1].data.id
          /\ h \notin channel_http_headers
    /\ \E h \in channel_http_headers : h.channel_id # last.args[1].data.id

\* C23 (SpecOneBatch): in one batch of one source that started with no group
\* of the source stored, a group row is inserted only on the first sight of
\* a group name (one row per name, each in the cache under its id); a call
\* for a channel with a group name returns Ok and gives the channel the id of
\* the stored row of that name, the same id on every sight; a call for a
\* channel without a group name gives no group_id, inserts nothing and adds
\* no cache entry.
C23_GroupInsertedOnFirstSight ==
    LET mine == {g \in groups : g.source_id = Some(1)}
    IN  /\ \A g \in mine : g.name \in DOMAIN group_cache /\ group_cache[g.name] = g.id
        /\ \A n \in DOMAIN group_cache : \E g \in mine : g.name = n
        /\ \A g, h \in mine : g.name = h.name => g = h
        /\ last.op = "set_channel_group_id" =>
              LET cache == last.args[1]
                  channel == last.args[2]
              IN  /\ last.ok
                  /\ channel.group = None =>
                        /\ last.ret.channel.group_id = None
                        /\ groups = last.pre.groups
                        /\ group_cache = cache
                  /\ \A n \in channel.group :
                        /\ \E g \in mine : g.name = n /\ last.ret.channel.group_id = Some(g.id)
                        /\ n \in DOMAIN cache =>
                              /\ groups = last.pre.groups
                              /\ last.ret.channel.group_id = Some(cache[n])
                        /\ n \notin DOMAIN cache =>
                              Cardinality(groups) = Cardinality(last.pre.groups) + 1
                        /\ \A m \in DOMAIN cache : group_cache[m] = cache[m]

\* The second channel of a batch with the group name g gets the id the first
\* sight stored, while source 2 has a group of the same name.
C23_Witness ==
    /\ last.op = "set_channel_group_id"
    /\ last.ok
    /\ last.args[2].group = Some(<<"g">>)
    /\ <<"g">> \in DOMAIN last.args[1]
    /\ last.ret.channel.group_id = Some(group_cache[<<"g">>])
    /\ groups = last.pre.groups
    /\ \E g \in groups : g.name = <<"g">> /\ g.source_id = Some(2)
    /\ Cardinality(DOMAIN group_cache) = 2

\* C24 (SpecCustomGroups): after delete_custom_group(id, new_id,
\* do_channels_update) returns Ok, no group row has the id and no stored
\* channel has group_id = id; every channel that was in the group has either
\* new_id or no group, whatever do_channels_update is.
C24_DeletedGroupLeavesNoMember ==
    (last.op = "delete_custom_group" /\ last.ok) =>
        LET id == last.args[1]
            new_id == last.args[2]
        IN  /\ \A g \in groups : g.id # id
            /\ \A c \in channels : c.group_id # Some(id)
            /\ \A c \in last.pre.channels :
                  c.group_id = Some(id) =>
                      \E d \in channels :
                          d.id = c.id /\ (d.group_id = new_id \/ d.group_id = None)

\* C25 (SpecCustom): whenever an add_custom_channel that returns Ok has
\* created a header row, the row's channel_id is the id of the stored channel
\* with the supplied (name, url, source_id), also when the channel insert was
\* ignored as a duplicate.
C25_HeadersAttachedToTheirChannel ==
    (last.op = "add_custom_channel" /\ last.ok) =>
        LET data == last.args[1].data
        IN  \A h \in channel_http_headers \ last.pre.channel_http_headers :
                \E c \in channels :
                    /\ c.name = data.name
                    /\ c.url = data.url
                    /\ c.source_id = data.source_id
                    /\ h.channel_id = Some(c.id)

\* C26 (SpecCustom): after an add_custom_channel that returns Ok for a
\* channel not stored before, with a header set that is not empty,
\* get_channel_headers_by_id of the new channel returns a header set with the
\* referrer, user_agent, http_origin and ignore_ssl supplied.
C26_HeadersRoundTrip ==
    (/\ last.op = "add_custom_channel"
     /\ last.ok
     /\ Cardinality(channels) = Cardinality(last.pre.channels) + 1) =>
        \A given \in last.args[1].headers :
            (given.referrer # None \/ given.user_agent # None \/
             given.http_origin # None \/ given.ignore_ssl # None) =>
                \A c \in channels \ last.pre.channels :
                    LET got == get_channel_headers_by_id(Db, c.id)
                    IN  /\ got.ok
                        /\ got.ret # None
                        /\ \A h \in got.ret :
                              /\ h.referrer = given.referrer
                              /\ h.user_agent = given.user_agent
                              /\ h.http_origin = given.http_origin
                              /\ h.ignore_ssl = given.ignore_ssl

\* C28 (SpecStartup): whenever create_or_initialize_db has just returned Ok,
\* after any drop_db and startups before it, the schema is the latest one:
\* channels_unique covers (name, url, source_id), sources has the column
\* use_tvg_id, and channel_http_headers exists with its unique index on
\* channel_id.
C28_SchemaIsLatestAfterStartup ==
    (last.op = "create_or_initialize_db" /\ last.ok) =>
        /\ \E o \in schema : /\ o.kind = "index"
                             /\ o.name = "channels_unique"
                             /\ o.on = "channels"
                             /\ o.def = "name, url, source_id"
        /\ \E o \in schema : o.kind = "column" /\ o.on = "sources" /\ o.name = "use_tvg_id"
        /\ \E o \in schema : o.kind = "table" /\ o.name = "channel_http_headers"
        /\ \E o \in schema : /\ o.kind = "index"
                             /\ o.name = "index_channel_http_headers_channel_id"
                             /\ o.on = "channel_http_headers"

\* C27 (SpecConcurrent): once a delete_source(id) that ran while an import
\* transaction into the source was open has returned Ok and the import has
\* finished, no channel and no group with source_id = id is stored.
C27_ConcurrentDeleteLeavesNoRows ==
    (/\ deleting.pc = 4
     /\ deleting.ok
     /\ deleting.overlap
     /\ importing.status \in {"committed", "failed"}) =>
        /\ \A c \in channels : c.source_id # Some(deleting.id)
        /\ \A g \in groups : g.source_id # Some(deleting.id)

\* C29 (SpecEpg): when add_epg or remove_epg has joined a poller that was
\* running with entries whose start had not passed when the call set the stop
\* flag, the poller has exited with those entries not notified: the call has
\* not waited for a start time to pass.
C29_StopEndsThePoller ==
    (last.op \in {"add_epg", "remove_epg"}) =>
        \A e \in last.args[3] :
            \A i \in 1..Len(notified) :
                ~(notified[i].poller = last.args[2] /\ notified[i].entry = e.id)

\* C30 (SpecEpg): no poller shows the notification of an entry before its
\* start time or twice, and a poller to which no stop was signalled returns
\* only with its list empty and every entry of the list notified; for the
\* first poller and for those started after another was stopped.
C30_PollerNotifiesEachEntryOnce ==
    /\ \A i \in 1..Len(notified) :
          /\ \E e \in pollers[notified[i].poller].list :
                e.id = notified[i].entry /\ notified[i].time >= e.start
          /\ \A j \in 1..Len(notified) :
                (notified[i].poller = notified[j].poller /\
                 notified[i].entry = notified[j].entry) => i = j
    /\ \A p \in 1..Len(pollers) :
          (~pollers[p].running /\ ~pollers[p].signalled) =>
              /\ pollers[p].to_watch = {}
              /\ \A e \in pollers[p].list :
                    \E i \in 1..Len(notified) :
                        notified[i].poller = p /\ notified[i].entry = e.id

====
